---------------------------- MODULE Spec2Model ----------------------------
(***************************************************************************)
(* The streaming log analyzer of smart_log_analyzer.py: LogAnalyzer's      *)
(* format detection, line parsing, the per-line loop of analyze_log_file   *)
(* and the end-of-stream derivation of the Insights report, and main: the  *)
(* command line, the input handle, the two output streams, the exceptions  *)
(* that end a run and the exit status.                                     *)
(*                                                                         *)
(* Text is kept as text: lines are TLA+ strings, the regular expressions   *)
(* of the source are scanners over their characters, and dictionaries are  *)
(* sequences of key/value entries in insertion order (Python's dict        *)
(* order).                                                                 *)
(***************************************************************************)
EXTENDS Integers, Sequences, FiniteSets, TLC

VARIABLES
    pending,      \* raw lines of the input the run has not read yet
    budget,       \* how many further raw lines (drawn from catalogue) may follow
    catalogue,    \* the raw lines the open part of the input draws from
    stream,       \* raw lines read so far, in order (enumerate's history)
    line_num,     \* enumerate(file_handle, 1): index of the last line read
    stats,        \* the stats dictionary of analyze_log_file
    cur,          \* locals of the latest loop iteration
    pc,           \* "main" | "loop" | "done" | "text" | "raised" | "exit" |
                  \* "rerun_same" | "rerun_new"
    set_order,    \* iteration order of the label sets in this process
    insights,     \* the report returned by analyze_log_file
    insights2,    \* the report of a second run on the same lines
    args,         \* the parsed command line: logfile, format, output
    file_handle,  \* the input handle of analyze_log_file and whether it is closed
    stdout,       \* what main has printed to standard output, in order
    stderr,       \* the messages printed to standard error, in order
    exit_status,  \* << >> while the process runs, then << its exit status >>
    raised,       \* the exception on its way to main's handlers ("" when none)
    stride,       \* how many lines of the input one step of the model reads
    faults,       \* how many failures the environment may still cause
    brave         \* the brave_search.py process: its queries, keys, loop
                  \* position, retry counter and what it has printed

vars == <<pending, budget, catalogue, stream, line_num, stats, cur, pc,
          set_order, insights, insights2, args, file_handle, stdout, stderr,
          exit_status, raised, stride, faults, brave>>

-----------------------------------------------------------------------------
(* Characters and strings                                                  *)

Char(s, i) == SubSeq(s, i, i)

CharsOf(s) == {Char(s, i) : i \in 1..Len(s)}

Min(a, b) == IF a < b THEN a ELSE b

Max(a, b) == IF a > b THEN a ELSE b

UpperLetters == "ABCDEFGHIJKLMNOPQRSTUVWXYZ"

LowerLetters == "abcdefghijklmnopqrstuvwxyz"

DigitChars == CharsOf("0123456789")

\* \s of Python's re on the text the analyzer reads
SpaceChars == {" ", "\t", "\n", "\r", "\f"}

\* \w
WordChars == CharsOf(UpperLetters) \cup CharsOf(LowerLetters) \cup DigitChars \cup {"_"}

\* A character class: the characters of set when neg is FALSE, all others when TRUE.
Class(set, neg) == [set |-> set, neg |-> neg]

InClass(c, cls) == (c \in cls.set) # cls.neg

LowerOf ==
    [c \in CharsOf(UpperLetters) |->
        Char(LowerLetters, CHOOSE i \in 1..Len(UpperLetters) : Char(UpperLetters, i) = c)]

\* str.lower() on one character
LowerChar(c) == IF c \in DOMAIN LowerOf THEN LowerOf[c] ELSE c

\* str.lower()
RECURSIVE Lower(_)
Lower(s) ==
    IF Len(s) <= 1 THEN LowerChar(s)
    ELSE Lower(SubSeq(s, 1, Len(s) \div 2)) \o Lower(SubSeq(s, (Len(s) \div 2) + 1, Len(s)))

\* sub in s
Contains(s, sub) ==
    \E i \in 1..(Len(s) - Len(sub) + 1) : SubSeq(s, i, i + Len(sub) - 1) = sub

\* s.rstrip(chars)
Rstrip(s, chars) ==
    SubSeq(s, 1, (CHOOSE e \in 1..(Len(s) + 1) :
                     /\ e = 1 \/ Char(s, e - 1) \notin chars
                     /\ \A k \in e..Len(s) : Char(s, k) \in chars) - 1)

\* s.strip()
Strip(s) ==
    SubSeq(Rstrip(s, SpaceChars),
           CHOOSE b \in 1..(Len(s) + 1) :
               /\ b > Len(s) \/ Char(s, b) \notin SpaceChars
               /\ \A k \in 1..(b - 1) : Char(s, k) \in SpaceChars,
           Len(Rstrip(s, SpaceChars)))

\* s[from:to], for positions counted from 1, to excluded
Sub(s, from, to) == SubSeq(s, from, to - 1)

\* s[:n]
Prefix(s, n) == SubSeq(s, 1, Min(n, Len(s)))

-----------------------------------------------------------------------------
(* Regular expressions of the source, as scanners.  A position is an index *)
(* into the string; 0 stands for "no match".                               *)

\* The least member of a set of positions, or other when it is empty.
FirstOr(S, other) == IF S = {} THEN other ELSE CHOOSE j \in S : \A k \in S : j <= k

\* First index >= i whose character is outside cls (Len(s)+1 when none).
RunEnd(s, i, cls) == FirstOr({j \in i..Len(s) : ~InClass(Char(s, j), cls)}, Len(s) + 1)

\* A position reached only when it lies beyond from.
Beyond(e, from) == IF e > from THEN e ELSE 0

\* cls+ at i (greedy): the position after the run, 0 when the run is empty.
Plus(s, i, cls) == IF i = 0 THEN 0 ELSE Beyond(RunEnd(s, i, cls), i)

\* cls* at i (greedy)
Star(s, i, cls) == IF i = 0 THEN 0 ELSE RunEnd(s, i, cls)

\* the literal character c at i
Lit(s, i, c) == IF i = 0 \/ i > Len(s) \/ Char(s, i) # c THEN 0 ELSE i + 1

NonSpace == Class(SpaceChars, TRUE)

Space == Class(SpaceChars, FALSE)

Digit == Class(DigitChars, FALSE)

Word == Class(WordChars, FALSE)

\* A search pattern: a sequence of sets of lower-case characters.
Literal(s) == [k \in 1..Len(s) |-> {Char(s, k)}]

\* re.search(pattern, text) for a (?i) pattern
Search(pattern, text) ==
    \E i \in 1..(Len(text) - Len(pattern) + 1) :
        \A k \in 1..Len(pattern) : LowerChar(Char(text, i + k - 1)) \in pattern[k]

error_patterns ==
    << Literal("error"), Literal("exception"), Literal("fail"),
       Literal("critical"), Literal("fatal"), Literal("panic"),
       Literal("segfault"), Literal("timeout"), Literal("connection refused"),
       Literal("50") \o <<DigitChars>> \o Literal(" "),
       Literal("40") \o <<DigitChars>> \o Literal(" ") >>

warning_patterns ==
    << Literal("warn"), Literal("warning"), Literal("deprecated"),
       Literal("slow"), Literal("high latency"), Literal("memory usage"),
       Literal("disk full"), Literal("cpu usage") >>

-----------------------------------------------------------------------------
(* Python values and dictionaries                                          *)

StrVal(s) == [t |-> "str", v |-> s]

\* a JSON integer, kept as its decimal text
IntVal(s) == [t |-> "int", v |-> s]

\* None
NoneVal == [t |-> "none", v |-> ""]

Entry(k, v) == [k |-> k, v |-> v]

\* key in d
HasKey(d, key) == \E i \in 1..Len(d) : d[i].k = key

\* d[key]
Get(d, key) == d[CHOOSE i \in 1..Len(d) : d[i].k = key].v

\* d[key] = v: an existing key keeps its place, a new one goes last
DictSet(d, key, v) ==
    IF HasKey(d, key)
    THEN [i \in 1..Len(d) |-> IF d[i].k = key THEN Entry(key, v) ELSE d[i]]
    ELSE Append(d, Entry(key, v))

\* counter[key] += 1 on a Counter or defaultdict(int); the count is the entry's value
CounterInc(c, key) == DictSet(c, key, IF HasKey(c, key) THEN Get(c, key) + 1 ELSE 1)

-----------------------------------------------------------------------------
(* Regular expressions with groups: a pattern is a sequence of tokens that *)
(* re.match takes one after the other from the start of the string.  A     *)
(* repetition is greedy.  In the patterns of the source a repetition never *)
(* has to give characters back, except where the pattern goes on with one  *)
(* literal character of the repetition's own class and the text must leave *)
(* the class right after it (\S+" before \s+, \S+: before \s+, .*\} before *)
(* $): there the repetition gives back exactly that last character.        *)

Tok(op, cls, c, name, body) == [op |-> op, cls |-> cls, c |-> c, name |-> name, body |-> body]

\* the literal character c
RLit(c) == Tok("lit", Space, c, "", <<>>)

\* cls+
RPlus(cls) == Tok("plus", cls, "", "", <<>>)

\* cls*
RStar(cls) == Tok("star", cls, "", "", <<>>)

\* cls+ where the pattern goes on with the literal c, a character of cls
RPlusBefore(cls, c) == Tok("plus_before", cls, c, "", <<>>)

\* cls* where the pattern goes on with the literal c, a character of cls
RStarBefore(cls, c) == Tok("star_before", cls, c, "", <<>>)

\* (?:body)?
ROpt(body) == Tok("opt", Space, "", "", body)

\* $
REnd == Tok("end", Space, "", "", <<>>)

\* (?P<name>body)
RGroup(name, body) ==
    << Tok("open", Space, "", name, <<>>) >> \o body \o << Tok("close", Space, "", name, <<>>) >>

\* .
AnyChar == Class({"\n"}, TRUE)

NotBracket == Class({"]"}, TRUE)

NotQuote == Class({"\""}, TRUE)

\* A match under way: the next position (0 once the match has failed) and the
\* spans of the groups met so far.
MatchAt(i, caps) == [i |-> i, caps |-> caps]

\* cls+ or cls* from m.i giving back the literal c, the last character of
\* the run: e is the end of the run, least the fewest characters the
\* repetition takes.
before_literal(s, m, e, least, c) ==
    IF e - 1 - m.i >= least /\ Char(s, e - 1) = c THEN [m EXCEPT !.i = e - 1]
    ELSE [m EXCEPT !.i = 0]

\* (?:body)? with taken the match of the body
optional(m, taken) == IF taken.i # 0 THEN taken ELSE m

RECURSIVE regex_run(_, _, _)

\* One token, from the match m.
regex_step(t, s, m) ==
    IF m.i = 0 THEN m
    ELSE CASE t.op = "lit"   -> [m EXCEPT !.i = Lit(s, m.i, t.c)]
           [] t.op = "plus"  -> [m EXCEPT !.i = Plus(s, m.i, t.cls)]
           [] t.op = "star"  -> [m EXCEPT !.i = Star(s, m.i, t.cls)]
           [] t.op = "plus_before" -> before_literal(s, m, RunEnd(s, m.i, t.cls), 1, t.c)
           [] t.op = "star_before" -> before_literal(s, m, RunEnd(s, m.i, t.cls), 0, t.c)
           [] t.op = "opt"   -> optional(m, regex_run(t.body, s, m))
           [] t.op = "open"  -> [m EXCEPT !.caps = DictSet(@, t.name, <<m.i, m.i>>)]
           [] t.op = "close" -> [m EXCEPT !.caps = DictSet(@, t.name, <<Get(@, t.name)[1], m.i>>)]
           [] t.op = "end"   -> [m EXCEPT !.i = IF m.i = Len(s) + 1 THEN m.i ELSE 0]

\* The tokens toks one after the other, from the match m: a failed match
\* stays failed.
regex_run(toks, s, m) ==
    IF toks = <<>> \/ m.i = 0 THEN m
    ELSE IF Len(toks) = 1 THEN regex_step(toks[1], s, m)
    ELSE regex_run(SubSeq(toks, (Len(toks) \div 2) + 1, Len(toks)), s,
                   regex_run(SubSeq(toks, 1, Len(toks) \div 2), s, m))

\* re.match(pattern, s): i is 0 when there is no match
regex_match(pattern, s) == regex_run(pattern, s, MatchAt(1, <<>>))

\* The names of a pattern's groups, in the order the pattern opens them.
RECURSIVE group_names(_)
group_names(toks) ==
    IF toks = <<>> THEN <<>>
    ELSE (CASE Head(toks).op = "open" -> << Head(toks).name >>
            [] Head(toks).op = "opt"  -> group_names(Head(toks).body)
            [] OTHER -> <<>>) \o group_names(Tail(toks))

\* The text of a group, None for a group that took no part in the match.
group_value(s, caps, name) ==
    IF HasKey(caps, name)
    THEN StrVal(SubSeq(s, Get(caps, name)[1], Get(caps, name)[2] - 1))
    ELSE NoneVal

\* A dictionary of the groups that took part in the match only.
groupdict_matched(names, s, caps) ==
    SelectSeq([i \in 1..Len(names) |-> Entry(names[i], group_value(s, caps, names[i]))],
              LAMBDA e : e.v.t # "none")

\* match.groupdict()
groupdict(names, s, caps) == [i \in 1..Len(names) |-> Entry(names[i], group_value(s, caps, names[i]))]

-----------------------------------------------------------------------------
(* self.log_formats: the four patterns                                     *)

\* ^(?P<timestamp>\w+\s+\d+\s+\d+:\d+:\d+)\s+(?P<host>\S+)\s+(?P<service>\S+):\s+(?P<message>.*)$
syslog_pattern ==
    RGroup("timestamp", << RPlus(Word), RPlus(Space), RPlus(Digit), RPlus(Space),
                           RPlus(Digit), RLit(":"), RPlus(Digit), RLit(":"), RPlus(Digit) >>)
    \o << RPlus(Space) >> \o RGroup("host", << RPlus(NonSpace) >>)
    \o << RPlus(Space) >> \o RGroup("service", << RPlusBefore(NonSpace, ":") >>)
    \o << RLit(":"), RPlus(Space) >> \o RGroup("message", << RStar(AnyChar) >>)
    \o << REnd >>

\* ^(?P<ip>\S+)\s+\S+\s+\S+\s+\[(?P<timestamp>[^\]]+)\]\s+"(?P<method>\S+)\s+(?P<path>\S+)\s+\S+"\s+(?P<status>\d+)\s+(?P<size>\S+)
combined_head ==
    RGroup("ip", << RPlus(NonSpace) >>)
    \o << RPlus(Space), RPlus(NonSpace), RPlus(Space), RPlus(NonSpace), RPlus(Space), RLit("[") >>
    \o RGroup("timestamp", << RPlus(NotBracket) >>)
    \o << RLit("]"), RPlus(Space), RLit("\"") >>
    \o RGroup("method", << RPlus(NonSpace) >>)
    \o << RPlus(Space) >> \o RGroup("path", << RPlus(NonSpace) >>)
    \o << RPlus(Space), RPlusBefore(NonSpace, "\""), RLit("\""), RPlus(Space) >>
    \o RGroup("status", << RPlus(Digit) >>)
    \o << RPlus(Space) >> \o RGroup("size", << RPlus(NonSpace) >>)

\* \s+"(?P<referrer>[^"]*)"\s+"(?P<user_agent>[^"]*)"
combined_tail ==
    << RPlus(Space), RLit("\"") >> \o RGroup("referrer", << RStar(NotQuote) >>)
    \o << RLit("\""), RPlus(Space), RLit("\"") >> \o RGroup("user_agent", << RStar(NotQuote) >>)
    \o << RLit("\"") >>

\* the referrer and the user agent are required
nginx_pattern == combined_head \o combined_tail \o << REnd >>

\* the referrer and the user agent are one optional group
apache_pattern == combined_head \o << ROpt(combined_tail), REnd >>

\* ^\{.*\}$
json_pattern == << RLit("{"), RStarBefore(AnyChar, "}"), RLit("}"), REnd >>

\* A dictionary that holds apache before nginx.
log_formats_apache_first == << "syslog", "apache", "nginx", "json" >>

\* The keys of self.log_formats in the order the dictionary holds them.
log_formats == << "syslog", "nginx", "apache", "json" >>

\* self.log_formats[format_name]
format_pattern(format_name) ==
    CASE format_name = "syslog" -> syslog_pattern
      [] format_name = "nginx"  -> nginx_pattern
      [] format_name = "apache" -> apache_pattern
      [] format_name = "json"   -> json_pattern

\* re.match(self.log_formats[format_name], line)
format_match(format_name, line) == regex_match(format_pattern(format_name), line).i # 0

\* The first of log_formats other than json that matches, unknown when none does.
first_format(hits) ==
    IF hits = {} THEN "unknown" ELSE log_formats[FirstOr(hits, 0)]

\* LogAnalyzer.detect_format
detect_format(line) ==
    IF format_match("json", Strip(line)) THEN "json"
    ELSE first_format({i \in 1..Len(log_formats) :
                          log_formats[i] # "json" /\ format_match(log_formats[i], line)})

-----------------------------------------------------------------------------
(* json.loads and json.dumps, on the JSON the inputs hold: one object      *)
(* whose members are strings without escapes and non-negative integers.    *)
(* Any other text of the shape {...} is not JSON at all in these inputs.   *)

JsonSpace == Class({" ", "\t", "\n", "\r"}, FALSE)

JsonStringChar == Class({"\"", "\\"}, TRUE)

\* json.loads raises JSONDecodeError
JsonFail == [ok |-> FALSE, val |-> <<>>, raised |-> ""]

\* json.loads raises another exception
JsonRaised(exception) == [ok |-> FALSE, val |-> <<>>, raised |-> exception]

\* json.loads returns the dictionary d
JsonDecoded(d) == [ok |-> TRUE, val |-> d, raised |-> ""]

\* int(text) refuses a text of more digits (sys.get_int_max_str_digits())
MaxIntDigits == 4300

\* no value at this position
JsonNoValue == [end |-> 0, val |-> NoneVal, raised |-> ""]

\* a string whose text ends before position s
json_string(t, i, s) ==
    [end |-> Lit(t, s, "\""), val |-> StrVal(Sub(t, i + 1, s)), raised |-> ""]

\* a number whose digits end before position d; a leading zero stands alone;
\* int() raises ValueError on more than MaxIntDigits digits
json_number(t, i, d) ==
    IF d = 0 \/ (Char(t, i) = "0" /\ d > i + 1) THEN JsonNoValue
    ELSE IF d - i > MaxIntDigits THEN [JsonNoValue EXCEPT !.raised = "ValueError"]
    ELSE [end |-> d, val |-> IntVal(Sub(t, i, d)), raised |-> ""]

\* A value at position i: [end |-> position after it (0: none), val |-> the value,
\* raised |-> the exception decoding it raises, if any]
json_value(t, i) ==
    IF i = 0 \/ i > Len(t) THEN JsonNoValue
    ELSE IF Char(t, i) = "\"" THEN json_string(t, i, Star(t, i + 1, JsonStringChar))
    ELSE json_number(t, i, Plus(t, i, Digit))

RECURSIVE json_members(_, _, _)

\* After a member: a comma and the next member, or the closing brace at the end.
json_next(t, next, acc) ==
    IF next = 0 \/ next > Len(t) THEN JsonFail
    ELSE IF Char(t, next) = "," THEN json_members(t, Star(t, next + 1, JsonSpace), acc)
    ELSE IF Char(t, next) = "}" /\ next = Len(t) THEN JsonDecoded(acc)
    ELSE JsonFail

json_member(t, key, value, acc) ==
    IF value.raised # "" THEN JsonRaised(value.raised)
    ELSE IF value.end = 0 THEN JsonFail
    ELSE json_next(t, Star(t, value.end, JsonSpace), DictSet(acc, key, value.val))

\* a member whose key starts after position i and ends before position k
json_keyed(t, i, k, acc) ==
    IF k = 0 THEN JsonFail
    ELSE json_member(t, Sub(t, i + 1, k),
                     json_value(t, Star(t, Lit(t, Star(t, Lit(t, k, "\""), JsonSpace), ":"),
                                        JsonSpace)),
                     acc)

\* The members from position i (a key's opening quote) on, added to acc.
json_members(t, i, acc) == json_keyed(t, i, Star(t, Lit(t, i, "\""), JsonStringChar), acc)

\* the object whose first token is at position i
json_object(text, i) ==
    IF i > Len(text) THEN JsonFail
    ELSE IF Char(text, i) = "}"
    THEN IF i = Len(text) THEN JsonDecoded(<<>>) ELSE JsonFail
    ELSE json_members(text, i, <<>>)

\* json.loads(text): ok is FALSE where it raises; raised is "" where the
\* exception is JSONDecodeError
json_loads(text) ==
    IF Lit(text, 1, "{") = 0 THEN JsonFail ELSE json_object(text, Star(text, 2, JsonSpace))

\* The escapes json.dumps writes inside a string
json_escape_char(c) ==
    CASE c = "\"" -> "\\\""
      [] c = "\\" -> "\\\\"
      [] c = "\t" -> "\\t"
      [] OTHER    -> c

RECURSIVE json_escape(_)
json_escape(s) ==
    IF Len(s) <= 1 THEN json_escape_char(s)
    ELSE json_escape(SubSeq(s, 1, Len(s) \div 2))
         \o json_escape(SubSeq(s, (Len(s) \div 2) + 1, Len(s)))

json_dumps_value(v) ==
    CASE v.t = "str"  -> "\"" \o json_escape(v.v) \o "\""
      [] v.t = "int"  -> v.v
      [] v.t = "none" -> "null"

RECURSIVE json_dumps_items(_)
json_dumps_items(d) ==
    IF d = <<>> THEN ""
    ELSE "\"" \o json_escape(Head(d).k) \o "\": " \o json_dumps_value(Head(d).v)
         \o (IF Len(d) > 1 THEN ", " ELSE "") \o json_dumps_items(Tail(d))

\* json.dumps(d) of a dictionary
json_dumps(d) == "{" \o json_dumps_items(d) \o "}"

-----------------------------------------------------------------------------
(* LogAnalyzer.parse_line                                                  *)

\* A fallback that keeps the line as it is.
whole_line_record(line, tag) ==
    << Entry("raw", StrVal(line)), Entry("format", StrVal(tag)) >>

\* {'raw': line.strip(), 'format': tag}
fallback_record(line, tag) ==
    << Entry("raw", StrVal(Strip(line))), Entry("format", StrVal(tag)) >>

decoded_or(decoded, fallback) == IF decoded.ok THEN decoded.val ELSE fallback

parse_json(line) ==
    decoded_or(json_loads(Strip(line)), fallback_record(line, "json_parse_error"))

\* match.groupdict() if match else the fallback
groups_or(match, names, line, fallback) ==
    IF match.i # 0 THEN groupdict(names, line, match.caps) ELSE fallback

\* A parse that applies the nginx pattern to the lines detected as apache.
parse_regex_other_pattern(line, detected_format) ==
    groups_or(regex_match(IF detected_format = "apache" THEN nginx_pattern
                          ELSE format_pattern(detected_format), line),
              group_names(format_pattern(detected_format)), line,
              fallback_record(line, detected_format \o "_parse_error"))

parse_regex(line, detected_format) ==
    groups_or(regex_match(format_pattern(detected_format), line),
              group_names(format_pattern(detected_format)), line,
              fallback_record(line, detected_format \o "_parse_error"))

parse_unknown(line) == fallback_record(line, "unknown")

\* The exception that leaves parse_line ("" when it returns): the except
\* clause catches json.JSONDecodeError alone.
parse_raises(line, detected_format) ==
    IF detected_format = "json" THEN json_loads(Strip(line)).raised ELSE ""

parse_line(line, detected_format) ==
    IF detected_format = "json" THEN parse_json(line)
    ELSE IF detected_format \in {"syslog", "nginx", "apache"}
    THEN parse_regex(line, detected_format)
    ELSE parse_unknown(line)

-----------------------------------------------------------------------------
(* Hour extraction (analyze_log_file, "Extract timestamp for hourly        *)
(* activity")                                                              *)

\* s.split(sep) for a one-character separator
RECURSIVE Split(_, _)
Split(s, sep) ==
    LET e == RunEnd(s, 1, Class({sep}, TRUE))
    IN  IF e > Len(s) THEN << s >>
        ELSE << Sub(s, 1, e) >> \o Split(SubSeq(s, e + 1, Len(s)), sep)

RECURSIVE SplitSpace(_)

\* the word of s that starts at position b, and those after it
split_word(s, b, e) ==
    IF b > Len(s) THEN << >>
    ELSE << Sub(s, b, e) >> \o SplitSpace(SubSeq(s, e, Len(s)))

\* s.split(): the runs of non-space characters
SplitSpace(s) == split_word(s, RunEnd(s, 1, Space), RunEnd(s, RunEnd(s, 1, Space), NonSpace))

NoHour == [ok |-> FALSE, hour |-> ""]

\* parts[n], ok being FALSE where the index raises IndexError
item(parts, n) == IF Len(parts) >= n THEN [ok |-> TRUE, hour |-> parts[n]] ELSE NoHour

\* words[2].split(':')[0]
third_word_hour(words) ==
    IF Len(words) >= 3 THEN item(Split(words[3], ":"), 1) ELSE NoHour

\* An extraction that takes the first field of every timestamp.
extract_first_field(detected_format, timestamp) ==
    IF detected_format \in {"nginx", "apache", "syslog"} THEN item(Split(timestamp, ":"), 1)
    ELSE NoHour

\* The hour the loop reads from a timestamp; the loop catches IndexError.
extract_hour(detected_format, timestamp) ==
    IF detected_format \in {"nginx", "apache"} THEN item(Split(timestamp, ":"), 2)
    ELSE IF detected_format = "syslog" THEN third_word_hour(SplitSpace(timestamp))
    ELSE NoHour

-----------------------------------------------------------------------------
(* LogAnalyzer.analyze_log_file: the body of the loop over the lines       *)

\* capacity of error_samples and warning_samples
SampleCap == 10

\* content is message_text[:ContentCap]
ContentCap == 200

\* the stats dictionary as analyze_log_file creates it
new_stats ==
    [ total_lines         |-> 0,
      errors              |-> 0,
      warnings            |-> 0,
      error_samples       |-> <<>>,
      warning_samples     |-> <<>>,
      status_codes        |-> <<>>,
      response_times      |-> <<>>,
      top_paths           |-> <<>>,
      top_ips             |-> <<>>,
      format_distribution |-> <<>>,
      hourly_activity     |-> <<>> ]

\* line = line.rstrip('\n\r')
strip_newline(raw) == Rstrip(raw, {"\n", "\r"})

\* A loop that skips no line.
skip_no_line(line) == FALSE

\* if not line: continue
skip_line(line) == line = ""

\* the text the error and warning patterns are tried on
message_text_of(detected_format, parsed_data) ==
    IF detected_format = "json" THEN json_dumps(parsed_data)
    ELSE IF HasKey(parsed_data, "message") THEN Get(parsed_data, "message").v
    ELSE IF HasKey(parsed_data, "raw") THEN Get(parsed_data, "raw").v
    ELSE ""

\* for pattern in patterns: if re.search(pattern, text): ...; break
matches_any(patterns, text) == \E i \in 1..Len(patterns) : Search(patterns[i], text)

\* if 'timestamp' in parsed_data: try: hour = ...
hour_of(detected_format, parsed_data) ==
    IF HasKey(parsed_data, "timestamp")
    THEN extract_hour(detected_format, Get(parsed_data, "timestamp").v)
    ELSE NoHour

\* The locals of an iteration and the outcome of its tests.
iteration_of(line, detected_format, parsed_data, message_text, exception) ==
    [ line            |-> line,
      skipped         |-> skip_line(line),
      raised          |-> exception,
      detected_format |-> detected_format,
      parsed_data     |-> parsed_data,
      hour            |-> hour_of(detected_format, parsed_data),
      message_text    |-> message_text,
      is_error        |-> matches_any(error_patterns, message_text),
      is_warning      |-> matches_any(warning_patterns, message_text) ]

iteration_parsed(line, detected_format, parsed_data) ==
    iteration_of(line, detected_format, parsed_data,
                 message_text_of(detected_format, parsed_data), "")

\* an iteration that parse_line leaves with an exception assigns nothing more
iteration_detected(line, detected_format) ==
    IF parse_raises(line, detected_format) # ""
    THEN iteration_of(line, detected_format, <<>>, "", parse_raises(line, detected_format))
    ELSE iteration_parsed(line, detected_format, parse_line(line, detected_format))

\* What one iteration computes from its line alone.
iteration(raw) == iteration_detected(strip_newline(raw), detect_format(strip_newline(raw)))

\* A test that lets one sample too many in.
sample_room_inclusive(samples) == Len(samples) <= SampleCap

\* len(samples) < 10
sample_has_room(samples) == Len(samples) < SampleCap

new_sample(n, it) ==
    [ line_number |-> n,
      content     |-> Prefix(it.message_text, ContentCap),
      format      |-> it.detected_format ]

\* A list that keeps the latest match in its last place once it is full.
add_sample_latest(samples, n, it) ==
    IF sample_has_room(samples) THEN Append(samples, new_sample(n, it))
    ELSE [samples EXCEPT ![Len(samples)] = new_sample(n, it)]

add_sample(samples, n, it) ==
    IF sample_has_room(samples) THEN Append(samples, new_sample(n, it)) ELSE samples

count_total(st, it) ==
    [st EXCEPT !.total_lines = @ + 1,
               !.format_distribution = CounterInc(@, it.detected_format)]

\* A count that files a line without an hour under the empty key.
count_hour_always(st, it) ==
    [st EXCEPT !.hourly_activity = CounterInc(@, it.hour.hour)]

count_hour(st, it) ==
    IF it.hour.ok THEN [st EXCEPT !.hourly_activity = CounterInc(@, it.hour.hour)]
    ELSE st

count_errors(st, n, it) ==
    IF it.is_error
    THEN [st EXCEPT !.errors = @ + 1, !.error_samples = add_sample(@, n, it)]
    ELSE st

\* A count that takes a line for a warning only when it is no error.
count_warnings_exclusive(st, n, it) ==
    IF it.is_warning /\ ~it.is_error
    THEN [st EXCEPT !.warnings = @ + 1, !.warning_samples = add_sample(@, n, it)]
    ELSE st

count_warnings(st, n, it) ==
    IF it.is_warning
    THEN [st EXCEPT !.warnings = @ + 1, !.warning_samples = add_sample(@, n, it)]
    ELSE st

\* one of stats['status_codes'], stats['top_paths'], stats['top_ips']
count_field(counter, parsed_data, key) ==
    IF HasKey(parsed_data, key) THEN CounterInc(counter, Get(parsed_data, key).v)
    ELSE counter

\* Web metrics that are kept for nginx lines only.
count_web_nginx(st, it) ==
    IF it.detected_format = "nginx"
    THEN [st EXCEPT !.status_codes = count_field(@, it.parsed_data, "status"),
                    !.top_paths = count_field(@, it.parsed_data, "path"),
                    !.top_ips = count_field(@, it.parsed_data, "ip")]
    ELSE st

count_web(st, it) ==
    IF it.detected_format \in {"nginx", "apache"}
    THEN [st EXCEPT !.status_codes = count_field(@, it.parsed_data, "status"),
                    !.top_paths = count_field(@, it.parsed_data, "path"),
                    !.top_ips = count_field(@, it.parsed_data, "ip")]
    ELSE st

\* The stats after the iteration `it` on line number n.
loop_step(st, n, it) ==
    IF it.skipped THEN st
    ELSE IF it.raised # "" THEN count_total(st, it)
    ELSE count_web(count_warnings(count_errors(count_hour(count_total(st, it), it),
                                               n, it), n, it), it)

\* if line_num % 10000 == 0: print(f"Processed {line_num} lines...", file=sys.stderr)
ProgressEvery == 10000

ProgressNotice(n) == "Processed " \o ToString(n) \o " lines..."

\* what the iteration `it` on line number n prints to standard error
progress_notice(n, it) ==
    IF ~it.skipped /\ it.raised = "" /\ n % ProgressEvery = 0
    THEN << ProgressNotice(n) >> ELSE <<>>

-----------------------------------------------------------------------------
(* The inputs                                                              *)

\* How many lines an input of mixed lines may hold.
MaxLines == 3

\* How many lines matching an error and a warning pattern a long input may hold.
MaxBoth == 11

\* How many plain lines a long input may end with.
MaxPlain == 19

EmptyLine == "\n"

NginxLine ==
    "192.168.1.5 - - [04/Feb/2026:08:15:30 +0800] \"GET /api HTTP/1.1\" 500 512 \"-\" \"curl/8.0\"\n"

Nginx200Line ==
    "10.0.0.9 - - [04/Feb/2026:23:59:59 +0800] \"GET / HTTP/1.1\" 200 5 \"-\" \"-\"\n"

\* no referrer, no user agent, and a timestamp without ':'
ApacheLine == "10.0.0.7 - - [04/Feb/2026 08] \"GET /error HTTP/1.1\" 404 12\n"

SyslogLine == "Feb  4 08:15:30 web1 app: connection failed, slow upstream\n"

\* "error" in the host name only
SyslogQuietLine == "Feb  4 9:05:00 errorhost cron: nightly job done\n"

JsonLine == "{\"level\":\"error\",\"msg\":\"boom\"}\n"

\* the shape {...} and, at once, the apache pattern; not JSON
JsonApacheLine == "{1.1.1.1 - - [t] \"GET / H\" 200 5}\n"

PaddedLine == "  disk full  \n"

PlainLine == "all good\n"

ErrorLine == "ERROR: fatal timeout\n"

MixedLines ==
    { EmptyLine, NginxLine, ApacheLine, SyslogLine, SyslogQuietLine, JsonLine,
      JsonApacheLine, PaddedLine, PlainLine, ErrorLine }

Repeat(line, n) == [i \in 1..n |-> line]

\* Long inputs: many lines that match an error and a warning pattern, ...
CapStreams ==
    { Repeat(SyslogLine, b) \o Repeat(PlainLine, p) : b \in 1..MaxBoth, p \in 0..1 }

\* ... and inputs that place the counters around the thresholds of the
\* recommendations.
ThresholdStreams ==
    { Repeat(ErrorLine, e) \o Repeat(PaddedLine, w) \o Repeat(Nginx200Line, n)
        \o Repeat(ApacheLine, m) \o Repeat(PlainLine, p) :
        e \in 0..1, w \in 0..1, n \in 0..2, m \in 0..1, p \in 4..MaxPlain }

\* How many lines the input of a run started from a command line may hold.
MaxCliLines == 2

\* How many lines may follow the line that is the 10,000th of a long input.
MaxTail == 2

\* How many lines of a long input one step of the model reads.
ProgressStride == 5000

RECURSIVE Digits(_)
\* n digits 1
Digits(n) ==
    IF n = 0 THEN "" ELSE IF n = 1 THEN "1"
    ELSE Digits(n \div 2) \o Digits(n - (n \div 2))

\* a JSON object holding an integer of one digit more than int() converts
BigIntLine == "{\"n\": " \o Digits(MaxIntDigits + 1) \o "}\n"

\* matches no pattern
NoiseLine == "%%%\n"

\* The lines a run started from a command line reads.
EdgeLines == { EmptyLine, PlainLine, NoiseLine, SyslogLine, BigIntLine }

\* Long inputs around the 10,000th line, with an empty line before it, at it
\* or nowhere.
ProgressStreams ==
    { Repeat(EmptyLine, e) \o Repeat(PlainLine, ProgressEvery - 1) \o Repeat(EmptyLine, m)
        \o Repeat(PlainLine, p) : e \in 0..1, m \in 0..1, p \in 0..MaxTail }

NoInsights == [none |-> TRUE]

NoOrder == [errors |-> <<>>, warnings |-> <<>>]

\* an error line of more than ContentCap characters
LongLine == "ERROR: " \o Digits(ContentCap) \o " end\n"

\* An empty line, the long line and lines that fill both sample lists
\* and go one beyond.
SampleStreams == { << EmptyLine, LongLine >> \o Repeat(SyslogLine, MaxBoth) }

\* error lines with the keywords of the label table
TwoKeywordLine == "ERROR: disk timeout\n"

MemoryLine == "fatal: out of memory\n"

DiskLine == "disk failure\n"

\* Inputs for the label lists: two keywords in one sample, a keyword in the
\* sixth sample only, and four labels.
LabelStreams ==
    { << TwoKeywordLine >> \o Repeat(ErrorLine, 4) \o << MemoryLine >>,
      << ErrorLine, SyslogLine, MemoryLine, DiskLine >> }

\* Every raw line an input may hold.
InputLines ==
    MixedLines \cup {Nginx200Line, LongLine, TwoKeywordLine, MemoryLine, DiskLine} \cup EdgeLines

\* iteration(raw), worked out once for each line of the inputs
Iterations == [raw \in InputLines |-> iteration(raw)]

NoLocals == iteration("")

\* The stats after one iteration of the loop on the raw line read as number n.
loop_body(st, n, raw) == loop_step(st, n, Iterations[raw])

-----------------------------------------------------------------------------
\* The whole loop over the lines, numbered from n + 1 on. The stats of the
\* lines before are worked out first (they never count more lines than the
\* n that were read).
RECURSIVE run_loop(_, _, _)
run_loop(st, n, lines) ==
    IF lines = <<>> \/ st.total_lines > n THEN st
    ELSE IF Len(lines) = 1 THEN loop_body(st, n + 1, lines[1])
    ELSE run_loop(run_loop(st, n, SubSeq(lines, 1, Len(lines) \div 2)),
                  n + (Len(lines) \div 2),
                  SubSeq(lines, (Len(lines) \div 2) + 1, Len(lines)))

-----------------------------------------------------------------------------
(* End of stream: the Insights report                                      *)

\* round(count / max(total, 1) * 100, 2), in hundredths of a percent.
\* round() rounds a tie to the even neighbour.
round_rate(count, total) ==
    LET den == Max(total, 1)
        q   == (count * 10000) \div den
        r   == (count * 10000) % den
    IN  IF 2 * r > den \/ (2 * r = den /\ q % 2 = 1) THEN q + 1 ELSE q

\* samples[:5]
PatternSamples == 5

\* the cut [:3] of the label list
PatternCap == 3

\* most_common(10)
TopN == 10

\* Independent tests: a sample appends the label of every keyword it holds.
label_of_every(content) ==
    (IF Contains(content, "timeout") THEN << "Timeout issues" >> ELSE << >>)
    \o (IF Contains(content, "connection") THEN << "Connection problems" >> ELSE << >>)
    \o (IF Contains(content, "memory") \/ Contains(content, "ram")
        THEN << "Memory pressure" >> ELSE << >>)
    \o (IF Contains(content, "disk") \/ Contains(content, "storage")
        THEN << "Storage issues" >> ELSE << >>)
    \o (IF Contains(content, "cpu") THEN << "High CPU usage" >> ELSE << >>)

\* the if/elif chain of _get_common_patterns: the labels one sample appends
label_of(content) ==
    IF Contains(content, "timeout") THEN << "Timeout issues" >>
    ELSE IF Contains(content, "connection") THEN << "Connection problems" >>
    ELSE IF Contains(content, "memory") \/ Contains(content, "ram")
    THEN << "Memory pressure" >>
    ELSE IF Contains(content, "disk") \/ Contains(content, "storage")
    THEN << "Storage issues" >>
    ELSE IF Contains(content, "cpu") THEN << "High CPU usage" >>
    ELSE << >>

\* the list patterns built from samples[:5]
RECURSIVE collect_labels(_)
collect_labels(samples) ==
    IF samples = <<>> THEN <<>>
    ELSE label_of(Lower(Head(samples).content)) \o collect_labels(Tail(samples))

\* set(patterns)
label_set(samples) ==
    LET patterns == collect_labels(SubSeq(samples, 1, Min(PatternSamples, Len(samples))))
    IN  {patterns[i] : i \in 1..Len(patterns)}

\* The orders in which iterating a set of strings may yield its members: the
\* order follows the strings' hashes, which differ from process to process.
Orderings(S) ==
    {o \in [1..Cardinality(S) -> S] : \A i, j \in 1..Cardinality(S) : o[i] = o[j] => i = j}

\* list(s) for a set s iterated in the order `order`
list_of_set(S, order) == SelectSeq(order, LAMBDA x : x \in S)

\* LogAnalyzer._get_common_patterns, with the iteration order of its set
_get_common_patterns(samples, order) ==
    IF samples = <<>> THEN <<>>
    ELSE LET listed == list_of_set(label_set(samples), order)
         IN  SubSeq(listed, 1, Min(PatternCap, Len(listed)))

\* Counter.most_common(): by count, largest first; equal counts keep their order
RECURSIVE sorted_by_count(_)
sorted_by_count(c) ==
    IF c = <<>> THEN <<>>
    ELSE LET top == CHOOSE i \in 1..Len(c) :
                        /\ \A j \in 1..Len(c) : c[j].v <= c[i].v
                        /\ \A j \in 1..(i - 1) : c[j].v < c[i].v
         IN  << c[top] >> \o sorted_by_count(SubSeq(c, 1, top - 1) \o SubSeq(c, top + 1, Len(c)))

\* counter.most_common(n)
most_common(c, n) == SubSeq(sorted_by_count(c), 1, Min(n, Len(c)))

RecErrors == "Investigate error patterns - consider implementing better error handling"

RecWarnings == "Address warning messages to prevent potential issues"

RecErrorRate == "High error rate detected (>5%) - immediate investigation recommended"

RecStatus == "HTTP 4xx/5xx errors detected - check application health"

RecSuspicious(top_ip) ==
    "Suspicious activity from IP " \o top_ip \o " - possible bot or attack"

RecHealthy == "No critical issues detected - system appears healthy"

\* A threshold that a rate of exactly 5% meets.
high_error_rate_inclusive(errors, total_lines) == 20 * errors >= Max(total_lines, 1)

\* stats['errors'] / max(stats['total_lines'], 1) > 0.05
high_error_rate(errors, total_lines) == 20 * errors > Max(total_lines, 1)

\* [code for code in stats['status_codes'] if code.startswith(('4', '5'))]
bad_status_codes(status_codes) ==
    SelectSeq(status_codes, LAMBDA e : Len(e.k) >= 1 /\ Char(e.k, 1) \in {"4", "5"})

\* A threshold that a share of exactly 10% meets.
dominant_ip_inclusive(count, total_lines) == 10 * count >= total_lines

\* count > stats['total_lines'] * 0.1
dominant_ip(count, total_lines) == 10 * count > total_lines

\* the list before the fallback is applied
recommendation_list(st) ==
    (IF st.errors > 0 THEN << RecErrors >> ELSE <<>>)
    \o (IF st.warnings > 0 THEN << RecWarnings >> ELSE <<>>)
    \o (IF high_error_rate(st.errors, st.total_lines) THEN << RecErrorRate >> ELSE <<>>)
    \o (IF bad_status_codes(st.status_codes) # <<>> THEN << RecStatus >> ELSE <<>>)
    \o (IF st.top_ips # <<>> /\ dominant_ip(most_common(st.top_ips, 1)[1].v, st.total_lines)
        THEN << RecSuspicious(most_common(st.top_ips, 1)[1].k) >> ELSE <<>>)

\* A list that always ends with the fallback.
recommendations_with_fallback(st) == recommendation_list(st) \o << RecHealthy >>

\* LogAnalyzer._generate_recommendations
_generate_recommendations(st) ==
    IF recommendation_list(st) # <<>> THEN recommendation_list(st) ELSE << RecHealthy >>

\* the insights dictionary
derive_insights(st, order) ==
    [ summary |->
        [ total_lines_processed |-> st.total_lines,
          error_count           |-> st.errors,
          warning_count         |-> st.warnings,
          error_rate            |-> round_rate(st.errors, st.total_lines),
          warning_rate          |-> round_rate(st.warnings, st.total_lines) ],
      format_analysis |-> st.format_distribution,
      error_analysis |->
        [ samples            |-> st.error_samples,
          most_common_errors |-> _get_common_patterns(st.error_samples, order.errors) ],
      warning_analysis |->
        [ samples              |-> st.warning_samples,
          most_common_warnings |-> _get_common_patterns(st.warning_samples, order.warnings) ],
      web_server_metrics |->
        [ status_code_distribution |-> st.status_codes,
          top_requested_paths      |-> most_common(st.top_paths, TopN),
          top_client_ips           |-> most_common(st.top_ips, TopN) ],
      temporal_analysis |-> [ hourly_activity |-> st.hourly_activity ],
      recommendations |-> _generate_recommendations(st) ]

\* The set orders a process may show for the two label sets of a run.
SetOrders(st) ==
    [ errors : Orderings(label_set(st.error_samples)),
      warnings : Orderings(label_set(st.warning_samples)) ]

-----------------------------------------------------------------------------
(* The run                                                                 *)

\* parser.parse_args() with no argument
DefaultArgs == [logfile |-> "-", format |-> "auto", output |-> "json"]

\* The paths of the file system that can be opened for reading.
ReadablePaths == {"app.log", "app.log.gz"}

\* The command lines of the runs.
Invocations ==
    { [DefaultArgs EXCEPT !.logfile = f] : f \in {"-", "app.log", "app.log.gz", "missing.log"} }
    \cup { [logfile |-> "app.log", format |-> "syslog", output |-> o] : o \in {"json", "text"} }
    \cup { [logfile |-> "-", format |-> "auto", output |-> "text"] }

NoHandle == [kind |-> "none", closed |-> FALSE]

\* brave_search.py is not running.
NoSearch == [pc |-> "off"]

\* main has parsed its arguments and created the analyzer.
Start(lines, more, from, argv, block, failures) ==
    /\ pending = lines
    /\ budget = more
    /\ catalogue = from
    /\ stream = <<>>
    /\ line_num = 0
    /\ stats = new_stats
    /\ cur = NoLocals
    /\ pc = "main"
    /\ set_order = NoOrder
    /\ insights = NoInsights
    /\ insights2 = NoInsights
    /\ args = argv
    /\ file_handle = NoHandle
    /\ stdout = <<>>
    /\ stderr = <<>>
    /\ exit_status = <<>>
    /\ raised = ""
    /\ stride = block
    /\ faults = failures
    /\ brave = NoSearch

Init ==
    \/ Start(<<>>, MaxLines, MixedLines, DefaultArgs, 1, 0)
    \/ \E lines \in CapStreams \cup ThresholdStreams \cup SampleStreams \cup LabelStreams :
          Start(lines, 0, {}, DefaultArgs, 1, 0)
    \/ \E argv \in Invocations : Start(<<>>, MaxCliLines, EdgeLines, argv, 1, 1)
    \/ \E lines \in ProgressStreams : Start(lines, 0, {}, DefaultArgs, ProgressStride, 0)

\* file_path.endswith('.gz')
ends_with_gz(file_path) ==
    Len(file_path) >= 3 /\ SubSeq(file_path, Len(file_path) - 2, Len(file_path)) = ".gz"

\* the handle chosen by "Determine input source"
input_handle(file_path) ==
    IF file_path # "" /\ file_path # "-"
    THEN IF ends_with_gz(file_path) THEN [kind |-> "gzip", closed |-> FALSE]
         ELSE [kind |-> "file", closed |-> FALSE]
    ELSE [kind |-> "stdin", closed |-> FALSE]

\* gzip.open and open raise OSError on a path that cannot be read
open_raises(file_path) ==
    IF file_path # "" /\ file_path # "-" /\ file_path \notin ReadablePaths
    THEN "OSError" ELSE ""

\* A finally clause that closes whatever handle it has.
close_any(handle) == [handle EXCEPT !.closed = TRUE]

\* finally: if file_handle != sys.stdin: file_handle.close()
finally_close(handle) ==
    IF handle.kind # "stdin" THEN [handle EXCEPT !.closed = TRUE] ELSE handle

\* main calls analyze_log_file(args.logfile), which opens its input.
OpenInput ==
    /\ pc = "main"
    /\ IF open_raises(args.logfile) # ""
       THEN /\ raised' = open_raises(args.logfile)
            /\ pc' = "raised"
            /\ UNCHANGED file_handle
       ELSE /\ file_handle' = input_handle(args.logfile)
            /\ pc' = "loop"
            /\ UNCHANGED raised
    /\ UNCHANGED <<brave, pending, budget, catalogue, stream, line_num, stats, cur,
                   set_order, insights, insights2, args, stdout, stderr,
                   exit_status, stride, faults>>

\* The raw lines the input may hold next.
NextLines ==
    IF pending # <<>> THEN {Head(pending)}
    ELSE IF budget > 0 THEN catalogue ELSE {}

\* One iteration of `for line_num, line in enumerate(file_handle, 1)`; an
\* exception leaves the function through the finally clause.
ReadLine ==
    /\ pc = "loop"
    /\ stride = 1
    /\ \E raw \in NextLines :
        /\ pending' = IF pending # <<>> THEN Tail(pending) ELSE pending
        /\ budget' = IF pending # <<>> THEN budget ELSE budget - 1
        /\ stream' = Append(stream, raw)
        /\ line_num' = line_num + 1
        /\ stats' = loop_body(stats, line_num + 1, raw)
        /\ cur' = Iterations[raw]
        /\ stderr' = stderr \o progress_notice(line_num + 1, Iterations[raw])
        /\ raised' = Iterations[raw].raised
        /\ pc' = IF Iterations[raw].raised # "" THEN "raised" ELSE "loop"
        /\ file_handle' = IF Iterations[raw].raised # "" THEN finally_close(file_handle)
                          ELSE file_handle
    /\ UNCHANGED <<brave, catalogue, set_order, insights, insights2, args, stdout,
                   exit_status, stride, faults>>

\* the notices of the lines numbered n + 1 .. n + Len(lines), m being the
\* first multiple of ProgressEvery above n that has not been looked at
RECURSIVE block_notices(_, _, _)
block_notices(m, n, lines) ==
    IF m > n + Len(lines) THEN <<>>
    ELSE progress_notice(m, Iterations[lines[m - n]])
             \o block_notices(m + ProgressEvery, n, lines)

\* The next `stride` iterations of the loop on a long input, none of which
\* raises, as one step.
ReadBlock ==
    /\ pc = "loop"
    /\ stride > 1
    /\ pending # <<>>
    /\ LET lines == SubSeq(pending, 1, Min(stride, Len(pending)))
       IN  /\ {i \in 1..Len(lines) : Iterations[lines[i]].raised # ""} = {}
           /\ pending' = SubSeq(pending, Len(lines) + 1, Len(pending))
           /\ stream' = stream \o lines
           /\ line_num' = line_num + Len(lines)
           /\ stats' = run_loop(stats, line_num, lines)
           /\ cur' = Iterations[lines[Len(lines)]]
           /\ stderr' = stderr \o block_notices(((line_num \div ProgressEvery) + 1) * ProgressEvery,
                                                line_num, lines)
    /\ UNCHANGED <<brave, budget, catalogue, pc, set_order, insights, insights2, args,
                   file_handle, stdout, exit_status, raised, stride, faults>>

\* Reading the next line fails (an I/O error, or data that is not gzip data).
ReadFails ==
    /\ pc = "loop"
    /\ faults > 0
    /\ faults' = faults - 1
    /\ raised' = "OSError"
    /\ pc' = "raised"
    /\ file_handle' = finally_close(file_handle)
    /\ UNCHANGED <<brave, pending, budget, catalogue, stream, line_num, stats, cur,
                   set_order, insights, insights2, args, stdout, stderr,
                   exit_status, stride>>

\* The user interrupts the process: KeyboardInterrupt is raised where main
\* is, inside analyze_log_file (which it leaves through the finally clause)
\* or between two print statements.
Interrupt ==
    /\ pc \in {"main", "loop", "done", "text"}
    /\ faults > 0
    /\ faults' = faults - 1
    /\ raised' = "KeyboardInterrupt"
    /\ pc' = "raised"
    /\ file_handle' = IF pc = "loop" THEN finally_close(file_handle) ELSE file_handle
    /\ UNCHANGED <<brave, pending, budget, catalogue, stream, line_num, stats, cur,
                   set_order, insights, insights2, args, stdout, stderr,
                   exit_status, stride>>

\* The input is exhausted: the handle is released, the insights are derived
\* and returned.
EndOfStream ==
    /\ pc = "loop"
    /\ pending = <<>>
    /\ \E order \in SetOrders(stats) :
        /\ set_order' = order
        /\ insights' = derive_insights(stats, order)
    /\ file_handle' = finally_close(file_handle)
    /\ pc' = "done"
    /\ UNCHANGED <<brave, pending, budget, catalogue, stream, line_num, stats, cur,
                   insights2, args, stdout, stderr, exit_status, raised, stride,
                   faults>>

\* if args.output == 'json': print(json.dumps(insights, ...))
PrintJson ==
    /\ pc = "done"
    /\ args.output = "json"
    /\ stdout' = Append(stdout, "json")
    /\ exit_status' = << 0 >>
    /\ pc' = "exit"
    /\ UNCHANGED <<brave, pending, budget, catalogue, stream, line_num, stats, cur,
                   set_order, insights, insights2, args, file_handle, stderr,
                   raised, stride, faults>>

\* the text output, its first four print statements
PrintSummary ==
    /\ pc = "done"
    /\ args.output = "text"
    /\ stdout' = Append(stdout, "summary")
    /\ pc' = "text"
    /\ UNCHANGED <<brave, pending, budget, catalogue, stream, line_num, stats, cur,
                   set_order, insights, insights2, args, file_handle, stderr,
                   exit_status, raised, stride, faults>>

\* the text output, from "=== RECOMMENDATIONS ===" on
PrintRecommendations ==
    /\ pc = "text"
    /\ stdout' = stdout \o << "recommendations" >>
                    \o (IF insights.error_analysis.samples # <<>>
                        THEN << "error samples" >> ELSE <<>>)
    /\ exit_status' = << 0 >>
    /\ pc' = "exit"
    /\ UNCHANGED <<brave, pending, budget, catalogue, stream, line_num, stats, cur,
                   set_order, insights, insights2, args, file_handle, stderr,
                   raised, stride, faults>>

\* the message main prints for the exception it caught
diagnostic(exception) ==
    IF exception = "KeyboardInterrupt" THEN "\nAnalysis interrupted by user"
    ELSE "Error during analysis: " \o exception

\* except KeyboardInterrupt / except Exception: a message on standard error
\* and sys.exit(1)
HandleException ==
    /\ pc = "raised"
    /\ stderr' = Append(stderr, diagnostic(raised))
    /\ exit_status' = << 1 >>
    /\ pc' = "exit"
    /\ UNCHANGED <<brave, pending, budget, catalogue, stream, line_num, stats, cur,
                   set_order, insights, insights2, args, file_handle, stdout,
                   raised, stride, faults>>

\* analyze_log_file on the same lines again; each call creates its own stats
second_run(lines, order) == derive_insights(run_loop(new_stats, 0, lines), order)

\* A second run in the same process: the label sets iterate as before.
RerunSameProcess ==
    /\ pc = "done"
    /\ insights2' = second_run(stream, set_order)
    /\ pc' = "rerun_same"
    /\ UNCHANGED <<brave, pending, budget, catalogue, stream, line_num, stats, cur,
                   set_order, insights, args, file_handle, stdout, stderr,
                   exit_status, raised, stride, faults>>

\* A second run in another process: its sets have an order of their own.
RerunNewProcess ==
    /\ pc = "done"
    /\ \E order \in SetOrders(stats) : insights2' = second_run(stream, order)
    /\ pc' = "rerun_new"
    /\ UNCHANGED <<brave, pending, budget, catalogue, stream, line_num, stats, cur,
                   set_order, insights, args, file_handle, stdout, stderr,
                   exit_status, raised, stride, faults>>

Next ==
    \/ OpenInput
    \/ ReadLine
    \/ ReadBlock
    \/ ReadFails
    \/ Interrupt
    \/ EndOfStream
    \/ PrintJson
    \/ PrintSummary
    \/ PrintRecommendations
    \/ HandleException
    \/ RerunSameProcess
    \/ RerunNewProcess

Spec == Init /\ [][Next]_vars

-----------------------------------------------------------------------------
(* brave_search.py: one search per query of the command line, with the     *)
(* paid key first and the free key as fallback.  The HTTP service is the   *)
(* environment: every requests.get gets one of Responses or raises.  None  *)
(* is << >> and a returned object is a one-element sequence.               *)

MAX_RETRIES == 3
BACKOFF_FACTOR == 2

MaxQueries == 2

Queries == {"tla", "tlc"}

\* args.queries (nargs="+"): one query at least
RECURSIVE QueryLists(_)
QueryLists(n) ==
    IF n = 0 THEN {<<>>}
    ELSE {<<>>} \cup {<<q>> \o rest : q \in Queries, rest \in QueryLists(n - 1)}

CommandLines == QueryLists(MaxQueries) \ {<<>>}

PaidKey == "paid-key"
FreeKey == "free-key"

\* _get_keys(): each key is a non-empty string or a falsy value ("" here)
KeyPairs == {<<paid, free>> : paid \in {"", PaidKey}, free \in {"", FreeKey}}

Response(status_code, body) == [status_code |-> status_code, body |-> body]

\* What the service may answer.  The body of a 200 answer is a JSON object
\* with web.results ("web"), an object without them ("empty"), or text that
\* resp.json() or data.get() fails on ("invalid").
Responses ==
    {Response(200, body) : body \in {"web", "empty", "invalid"}}
    \cup {Response(status_code, "") : status_code \in {401, 403, 404, 429, 500}}

\* requests.get raised instead of returning a response
Raised == Response(0, "raised")

\* BACKOFF_FACTOR**retry_count
RECURSIVE Pow(_, _)
Pow(b, e) == IF e = 0 THEN 1 ELSE b * Pow(b, e - 1)

\* the results list built from data["web"]["results"], by title
results_of(body) == IF body = "web" THEN <<"TLA+ home page">> ELSE <<>>

\* An attempts list with the free key first.
attempts_free_first(paid, free) ==
    (IF free # "" THEN <<[tier |-> "free", key |-> free]>> ELSE <<>>)
    \o (IF paid # "" THEN <<[tier |-> "paid", key |-> paid]>> ELSE <<>>)

\* the attempts list of search: paid first, then free
attempts_of(paid, free) ==
    (IF paid # "" THEN <<[tier |-> "paid", key |-> paid]>> ELSE <<>>)
    \o (IF free # "" THEN <<[tier |-> "free", key |-> free]>> ELSE <<>>)

\* python brave_search.py queries...: before the first search.  argv is
\* args.queries and queries the part of it not searched yet; notice is
\* the last line the running _search_with_key call wrote to standard error;
\* requests and returns are the history of the latest search call: the keys
\* its requests were sent with and what each _search_with_key call returned;
\* resp is what the latest requests.get produced.
SearchStart(queries, paid, free) ==
    [pc |-> "main", argv |-> queries, queries |-> queries,
     paid |-> paid, free |-> free,
     query |-> "", attempts |-> <<>>, tier |-> "", api_key |-> "",
     retry_count |-> 0, wait_time |-> 0, last_err |-> <<>>, notice |-> "",
     printed |-> <<>>, requests |-> <<>>, returns |-> <<>>,
     resp |-> Response(0, "")]

\* for tier, key in attempts: the call _search_with_key(query, count, key)
next_attempt(s) ==
    [s EXCEPT !.pc = "request",
              !.tier = Head(s.attempts).tier,
              !.api_key = Head(s.attempts).key,
              !.attempts = Tail(s.attempts),
              !.retry_count = 0, !.wait_time = 0, !.notice = ""]

\* search(query, count) up to its first request
search(s) ==
    IF s.paid = "" /\ s.free = ""
    THEN [s EXCEPT !.queries = Tail(@), !.query = Head(s.queries),
                   !.requests = <<>>, !.returns = <<>>,
                   !.printed = Append(@, [success |-> FALSE,
                                          error |-> "Missing Brave API key(s)",
                                          downgrade |-> TRUE])]
    ELSE next_attempt([s EXCEPT !.queries = Tail(@), !.query = Head(s.queries),
                                !.requests = <<>>, !.returns = <<>>,
                                !.attempts = attempts_of(s.paid, s.free)])

\* the failure object search prints after the last key
failure(query, last_err) ==
    [success |-> FALSE, query |-> query,
     error |-> "Brave Search failed after trying all keys",
     last_error |-> last_err, downgrade |-> TRUE]

\* search returns: its locals and those of _search_with_key are gone
leave(s, line) ==
    [s EXCEPT !.pc = "main", !.attempts = <<>>, !.tier = "", !.api_key = "",
              !.retry_count = 0, !.wait_time = 0, !.last_err = <<>>,
              !.notice = "", !.printed = Append(@, line)]

\* _search_with_key returns (data, err) into the loop of search
returned(s, data, err) ==
    IF data # <<>>
    THEN leave([s EXCEPT !.returns = Append(@, [tier |-> s.tier, data |-> data, err |-> err])],
               [success |-> data[1].success, query |-> data[1].query,
                results |-> data[1].results, tier |-> s.tier])
    ELSE IF s.attempts # <<>>
    THEN next_attempt([s EXCEPT !.last_err = err,
                                !.returns = Append(@, [tier |-> s.tier, data |-> data, err |-> err])])
    ELSE leave([s EXCEPT !.returns = Append(@, [tier |-> s.tier, data |-> data, err |-> err])],
               failure(s.query, err))

\* A loop test that admits one more pass.
may_request_once_more(retry_count) == retry_count <= MAX_RETRIES + 1

\* while retry_count <= MAX_RETRIES
may_request(retry_count) == retry_count <= MAX_RETRIES

\* the line is written, then sleep(wait_time); retry_count += 1; the loop
\* test, and after the loop
\* return None, {"kind": "rate_or_api", "status": 429}
retry(s, wait_time, line) ==
    IF may_request(s.retry_count + 1)
    THEN [s EXCEPT !.retry_count = @ + 1, !.wait_time = wait_time,
                   !.notice = line]
    ELSE returned([s EXCEPT !.retry_count = @ + 1, !.wait_time = wait_time,
                            !.notice = line],
                  <<>>, <<[kind |-> "rate_or_api", status |-> 429]>>)

\* requests.get(API_URL, ...) is sent with the key of the attempt and
\* produces resp
sent(s, resp) == [s EXCEPT !.requests = Append(@, s.tier), !.resp = resp]

\* the body of the try block for the response resp
handle(s, resp) ==
    IF resp.status_code = 200
    THEN IF resp.body = "invalid"
         THEN retry(s, 1, "Request failed: Expecting value")
         ELSE returned(s, <<[success |-> TRUE, query |-> s.query,
                             results |-> results_of(resp.body)]>>, <<>>)
    ELSE IF resp.status_code \in {401, 403}
    THEN returned(s, <<>>, <<[kind |-> "auth", status |-> resp.status_code]>>)
    ELSE IF resp.status_code = 429
    THEN retry(s, Pow(BACKOFF_FACTOR, s.retry_count) + 1, "Rate limited (429). Retrying")
    ELSE IF resp.status_code >= 500
    THEN retry(s, Pow(BACKOFF_FACTOR, s.retry_count), "API Error. Retrying")
    ELSE returned([s EXCEPT !.notice = "API Error"], <<>>,
                  <<[kind |-> "api", status |-> resp.status_code]>>)

analyzer_vars == <<pending, budget, catalogue, stream, line_num, stats, cur,
                   pc, set_order, insights, insights2, args, file_handle,
                   stdout, stderr, exit_status, raised, stride, faults>>

\* for q in args.queries: search(q, args.count)
SearchQuery ==
    /\ brave.pc = "main"
    /\ brave.queries # <<>>
    /\ brave' = search(brave)
    /\ UNCHANGED analyzer_vars

\* One pass of the while loop with a 200 answer.
Respond200 ==
    /\ brave.pc = "request"
    /\ \E resp \in {r \in Responses : r.status_code = 200} :
          brave' = handle(sent(brave, resp), resp)
    /\ UNCHANGED analyzer_vars

\* One pass with a 401 or 403 answer.
RespondAuth ==
    /\ brave.pc = "request"
    /\ \E resp \in {r \in Responses : r.status_code \in {401, 403}} :
          brave' = handle(sent(brave, resp), resp)
    /\ UNCHANGED analyzer_vars

\* One pass with a 429 answer.
RespondRateLimited ==
    /\ brave.pc = "request"
    /\ \E resp \in {r \in Responses : r.status_code = 429} :
          brave' = handle(sent(brave, resp), resp)
    /\ UNCHANGED analyzer_vars

\* One pass with a 5xx answer.
RespondServerError ==
    /\ brave.pc = "request"
    /\ \E resp \in {r \in Responses : r.status_code >= 500} :
          brave' = handle(sent(brave, resp), resp)
    /\ UNCHANGED analyzer_vars

\* One pass with any other status.
RespondOther ==
    /\ brave.pc = "request"
    /\ \E resp \in {r \in Responses :
                      /\ r.status_code \notin {200, 401, 403, 429}
                      /\ r.status_code < 500} :
          brave' = handle(sent(brave, resp), resp)
    /\ UNCHANGED analyzer_vars

\* requests.get raises (timeout, connection error): except Exception
RequestFails ==
    /\ brave.pc = "request"
    /\ brave' = retry(sent(brave, Raised), 1, "Request failed: timed out")
    /\ UNCHANGED analyzer_vars

\* the loop over args.queries ends and the process exits
SearchExit ==
    /\ brave.pc = "main"
    /\ brave.queries = <<>>
    /\ brave' = [brave EXCEPT !.pc = "exit"]
    /\ UNCHANGED analyzer_vars

SearchInit ==
    /\ pending = <<>>
    /\ budget = 0
    /\ catalogue = {}
    /\ stream = <<>>
    /\ line_num = 0
    /\ stats = new_stats
    /\ cur = NoLocals
    /\ pc = "exit"
    /\ set_order = NoOrder
    /\ insights = NoInsights
    /\ insights2 = NoInsights
    /\ args = DefaultArgs
    /\ file_handle = NoHandle
    /\ stdout = <<>>
    /\ stderr = <<>>
    /\ exit_status = <<>>
    /\ raised = ""
    /\ stride = 1
    /\ faults = 0
    /\ \E queries \in CommandLines, keys \in KeyPairs :
          brave = SearchStart(queries, keys[1], keys[2])

SearchNext ==
    \/ SearchQuery
    \/ Respond200
    \/ RespondAuth
    \/ RespondRateLimited
    \/ RespondServerError
    \/ RespondOther
    \/ RequestFails
    \/ SearchExit

SearchSpec == SearchInit /\ [][SearchNext]_vars

-----------------------------------------------------------------------------
(* Properties of the analyzer                                              *)

\* counter.get(key, 0)
Count(c, key) == IF HasKey(c, key) THEN Get(c, key) ELSE 0

\* How often x occurs in seq.
Occurrences(seq, x) == Cardinality({i \in 1..Len(seq) : seq[i] = x})

\* The positions of the stream whose line holds a character other than the
\* newline and the carriage return.
NonEmptyLines ==
    {i \in 1..Len(stream) : \E j \in 1..Len(stream[i]) : Char(stream[i], j) \notin {"\n", "\r"}}

\* What the iteration on the i-th line of the stream computed.
LocalsAt(i) == Iterations[stream[i]]

\* An iteration has just processed a line it did not skip.
Processed == pc = "loop" /\ line_num > 0 /\ ~cur.skipped

\* C1: in every state of a run the running total is the number of lines of
\* the stream read so far that are non-empty once the trailing newline and
\* carriage-return characters are gone, and after the run
\* summary.total_lines_processed is that number for the whole stream.
C1_TotalLinesProcessed ==
    /\ stats.total_lines = Cardinality(NonEmptyLines)
    /\ insights # NoInsights
           => insights.summary.total_lines_processed = Cardinality(NonEmptyLines)

\* A finished run over an empty line and two lines of different formats.
C1_Witness ==
    /\ pc = "done"
    /\ Len(stream) = 3
    /\ insights.summary.total_lines_processed = 2
    /\ \E i, j \in NonEmptyLines : LocalsAt(i).detected_format # LocalsAt(j).detected_format

\* The positions of the stream whose line was counted as an error.
ErrorLines == {i \in NonEmptyLines : LocalsAt(i).is_error}

\* The positions of the stream whose line was counted as a warning.
WarningLines == {i \in NonEmptyLines : LocalsAt(i).is_warning}

\* C2: in every state of a run each sample list holds at most 10 entries
\* (the first 10 matches), while the error and the warning counter count
\* every matching line.
C2_SampleCapacity ==
    /\ Len(stats.error_samples) = Min(stats.errors, 10)
    /\ Len(stats.warning_samples) = Min(stats.warnings, 10)
    /\ stats.errors = Cardinality(ErrorLines)
    /\ stats.warnings = Cardinality(WarningLines)

\* More than 10 lines matched an error and a warning pattern.
C2_Witness ==
    /\ stats.errors > 10
    /\ stats.warnings > 10
    /\ Len(stats.error_samples) = 10
    /\ Len(stats.warning_samples) = 10

\* The iteration that reads the line raw.
Reads(raw) == pc = "loop" /\ pc' = "loop" /\ stream' = Append(stream, raw)

\* C3 (as the specification states it): processing the combined-format line
\* with status 500 detects nginx and increments the error count, the count
\* of status "500", the count of path "/api" and the hourly bucket "08".
C3_Status500Line ==
    [][Reads(NginxLine) =>
        /\ cur'.detected_format = "nginx"
        /\ stats'.errors = stats.errors + 1
        /\ Count(stats'.status_codes, "500") = Count(stats.status_codes, "500") + 1
        /\ Count(stats'.top_paths, "/api") = Count(stats.top_paths, "/api") + 1
        /\ Count(stats'.hourly_activity, "08") = Count(stats.hourly_activity, "08") + 1]_vars

\* The line has been processed as the only line of a stream: it was taken as
\* nginx, its status, path and hour were counted, the error patterns were
\* tried on the empty text, and no error was counted.
C3_FailingRun ==
    /\ Processed
    /\ stream = << NginxLine >>
    /\ cur.detected_format = "nginx"
    /\ cur.message_text = ""
    /\ Count(stats.status_codes, "500") = 1
    /\ Count(stats.top_paths, "/api") = 1
    /\ Count(stats.hourly_activity, "08") = 1
    /\ stats.errors = 0

\* The i-th line of the stream without its trailing newline.
LineAt(i) == strip_newline(stream[i])

\* The positions of the stream whose line holds "error" in any case.
LinesNamingError == {i \in NonEmptyLines : Contains(Lower(LineAt(i)), "error")}

\* No line without "error" matches an error pattern.
NothingElseMatches ==
    \A i \in NonEmptyLines \ LinesNamingError : ~matches_any(error_patterns, LineAt(i))

\* C4 (as the specification states it): when k of the n non-empty lines hold
\* "error" in any case and no other line matches an error pattern, the
\* report has error_count = k and error_rate = k / max(n, 1) * 100 rounded
\* to 2 decimals.
C4_ErrorCount ==
    (pc = "done" /\ NothingElseMatches) =>
        /\ insights.summary.error_count = Cardinality(LinesNamingError)
        /\ insights.summary.error_rate
             = round_rate(Cardinality(LinesNamingError), Cardinality(NonEmptyLines))

\* A finished run over one apache line that holds "error": no error counted.
C4_FailingRun ==
    /\ pc = "done"
    /\ stream = << ApacheLine >>
    /\ NothingElseMatches
    /\ Cardinality(LinesNamingError) = 1
    /\ insights.summary.error_count = 0

\* C5 (as the specification states it): a second run on the same lines, in
\* the same process or in another one, yields the same Insights, the order
\* of the label lists included.
C5_Determinism == pc \in {"rerun_same", "rerun_new"} => insights2 = insights

\* A second run in another process whose Insights differ from the first's,
\* and only in the order of a label list.
C5_FailingRun ==
    /\ pc = "rerun_new"
    /\ insights2 # insights
    /\ [insights2 EXCEPT !.warning_analysis.most_common_warnings = <<>>,
                         !.error_analysis.most_common_errors = <<>>]
         = [insights EXCEPT !.warning_analysis.most_common_warnings = <<>>,
                            !.error_analysis.most_common_errors = <<>>]
    /\ {insights2.warning_analysis.most_common_warnings[k] :
            k \in 1..Len(insights2.warning_analysis.most_common_warnings)}
         = {insights.warning_analysis.most_common_warnings[k] :
            k \in 1..Len(insights.warning_analysis.most_common_warnings)}

\* The format of a line by the priority json (on the trimmed line), syslog,
\* nginx, apache (on the line as it is), unknown when no pattern matches.
PriorityFormat(line) ==
    IF format_match("json", Strip(line)) THEN "json"
    ELSE IF format_match("syslog", line) THEN "syslog"
    ELSE IF format_match("nginx", line) THEN "nginx"
    ELSE IF format_match("apache", line) THEN "apache"
    ELSE "unknown"

\* PriorityFormat of each line of the inputs
Priority == [raw \in InputLines |-> PriorityFormat(strip_newline(raw))]

\* C6: the format detected for a line is the first of json, syslog, nginx,
\* apache whose pattern matches it, unknown when none does, whatever lines
\* came before: the format of the line just processed, and the format
\* counts over all the lines processed so far, follow that priority.
C6_DetectPriority ==
    /\ Processed => cur.detected_format = Priority[stream[Len(stream)]]
    /\ \A f \in {"json", "syslog", "nginx", "apache", "unknown"} :
          Count(stats.format_distribution, f)
            = Cardinality({i \in NonEmptyLines : Priority[stream[i]] = f})

\* A line of the shape {...} that the apache pattern matches too, taken as
\* json after lines of other formats.
C6_Witness ==
    /\ Processed
    /\ Len(stream) = 3
    /\ stream[3] = JsonApacheLine
    /\ cur.detected_format = "json"
    /\ format_match("apache", cur.line)
    /\ Count(stats.format_distribution, "json") = 1

\* s is the text t without the whitespace at its two ends.
IsTrimOf(s, t) ==
    /\ \E i \in 0..Len(t) :
          /\ SubSeq(t, i + 1, i + Len(s)) = s
          /\ \A j \in (1..i) \cup ((i + Len(s) + 1)..Len(t)) : Char(t, j) \in SpaceChars
    /\ s # "" => Char(s, 1) \notin SpaceChars /\ Char(s, Len(s)) \notin SpaceChars

\* The iteration that reads a non-empty line no pattern matches.
ReadsUnmatched ==
    \E raw \in InputLines : Reads(raw) /\ Priority[raw] = "unknown" /\ strip_newline(raw) # ""

\* C7 (as the specification states it): a line that no pattern matches is
\* parsed into {raw: the line, format: "unknown"} and adds one to
\* format_analysis["unknown"].
C7_UnknownRecordWholeLine ==
    [][ReadsUnmatched =>
        /\ cur'.parsed_data
             = << Entry("raw", StrVal(cur'.line)), Entry("format", StrVal("unknown")) >>
        /\ Count(stats'.format_distribution, "unknown")
             = Count(stats.format_distribution, "unknown") + 1]_vars

\* C7 (amended): a line that no pattern matches is parsed into the record of
\* exactly the two entries raw, the line without the whitespace at its two
\* ends, and format, "unknown", and adds one to format_analysis["unknown"].
C7_UnknownRecordTrimmed ==
    [][ReadsUnmatched =>
        /\ Len(cur'.parsed_data) = 2
        /\ cur'.parsed_data[1].k = "raw"
        /\ cur'.parsed_data[1].v.t = "str"
        /\ IsTrimOf(cur'.parsed_data[1].v.v, cur'.line)
        /\ cur'.parsed_data[2] = Entry("format", StrVal("unknown"))
        /\ Count(stats'.format_distribution, "unknown")
             = Count(stats.format_distribution, "unknown") + 1]_vars

\* A line with spaces at both ends has been parsed as unknown.
C7_Witness ==
    /\ Processed
    /\ cur.line = "  disk full  "
    /\ cur.detected_format = "unknown"
    /\ Get(cur.parsed_data, "raw") = StrVal("disk full")
    /\ Count(stats.format_distribution, "unknown") >= 1

\* The positions of the stream whose line is an nginx or apache line of the
\* client ip.
LinesOfIp(ip) ==
    {i \in NonEmptyLines :
        /\ LocalsAt(i).detected_format \in {"nginx", "apache"}
        /\ Get(LocalsAt(i).parsed_data, "ip") = StrVal(ip)}

\* The client IPs of the nginx and apache lines of the stream.
ClientIps ==
    {Get(LocalsAt(i).parsed_data, "ip").v :
        i \in {j \in NonEmptyLines : LocalsAt(j).detected_format \in {"nginx", "apache"}}}

\* The IPs no other IP has more lines than.
MostFrequentIps ==
    {ip \in ClientIps :
        \A other \in ClientIps : Cardinality(LinesOfIp(other)) <= Cardinality(LinesOfIp(ip))}

\* The most frequent IP has more than 10% of the non-empty lines.
IpAboveTenPercent ==
    \E ip \in MostFrequentIps : 10 * Cardinality(LinesOfIp(ip)) > Cardinality(NonEmptyLines)

IsBotAdvisory(rec) == Contains(rec, "possible bot or attack")

\* The text s without its first occurrence of sub.
Without(s, sub) ==
    LET at == FirstOr({i \in 1..(Len(s) - Len(sub) + 1) : SubSeq(s, i, i + Len(sub) - 1) = sub}, 0)
    IN  IF at = 0 THEN s ELSE SubSeq(s, 1, at - 1) \o SubSeq(s, at + Len(sub), Len(s))

\* C8 (as the specification states it): when the most frequent client IP has
\* more than 10% of the total lines the recommendations hold the bot/attack
\* advisory, naming that IP and its request count; otherwise they hold no
\* such advisory.
C8_AdvisoryNamesIpAndCount ==
    pc = "done" =>
        IF IpAboveTenPercent
        THEN \E k \in 1..Len(insights.recommendations) : \E ip \in MostFrequentIps :
                /\ IsBotAdvisory(insights.recommendations[k])
                /\ Contains(insights.recommendations[k], ip)
                /\ Contains(Without(insights.recommendations[k], ip),
                            ToString(Cardinality(LinesOfIp(ip))))
        ELSE \A k \in 1..Len(insights.recommendations) :
                ~IsBotAdvisory(insights.recommendations[k])

\* C8 (amended): when the most frequent client IP has more than 10% of the
\* total lines the recommendations hold exactly one bot/attack advisory,
\* "Suspicious activity from IP <ip> - possible bot or attack", which names
\* that IP and no count; otherwise they hold no such advisory.
C8_AdvisoryNamesIp ==
    pc = "done" =>
        IF IpAboveTenPercent
        THEN /\ Cardinality({k \in 1..Len(insights.recommendations) :
                                IsBotAdvisory(insights.recommendations[k])}) = 1
             /\ \E k \in 1..Len(insights.recommendations) : \E ip \in MostFrequentIps :
                  insights.recommendations[k]
                    = "Suspicious activity from IP " \o ip \o " - possible bot or attack"
        ELSE \A k \in 1..Len(insights.recommendations) :
                ~IsBotAdvisory(insights.recommendations[k])

\* Two of at least twelve lines came from one IP and the advisory is given.
C8_Witness ==
    /\ pc = "done"
    /\ stats.total_lines >= 12
    /\ IpAboveTenPercent
    /\ \E ip \in MostFrequentIps : Cardinality(LinesOfIp(ip)) = 2
    /\ \E k \in 1..Len(insights.recommendations) : IsBotAdvisory(insights.recommendations[k])

\* Some status code counted starts with 4 or 5.
BadStatusSeen ==
    \E i \in 1..Len(stats.status_codes) : Char(stats.status_codes[i].k, 1) \in {"4", "5"}

\* C9: after a run the recommendation list is not empty; it is the single
\* fallback entry exactly when errors = 0, warnings = 0, no status code
\* starts with 4 or 5 and no IP has more than 10% of the total lines; the
\* fallback stands with no other entry; an empty stream gives rates 0 and
\* the fallback alone.
C9_Fallback ==
    pc = "done" =>
        /\ insights.recommendations # <<>>
        /\ (insights.recommendations
              = << "No critical issues detected - system appears healthy" >>)
           <=> (/\ stats.errors = 0
                /\ stats.warnings = 0
                /\ ~BadStatusSeen
                /\ ~IpAboveTenPercent)
        /\ Occurrences(insights.recommendations,
                       "No critical issues detected - system appears healthy") > 0
              => Len(insights.recommendations) = 1
        /\ stats.total_lines = 0
              => /\ insights.summary.error_rate = 0
                 /\ insights.summary.warning_rate = 0
                 /\ insights.recommendations
                      = << "No critical issues detected - system appears healthy" >>

\* A run over lines that raise nothing ends with the fallback alone.
C9_Witness ==
    /\ pc = "done"
    /\ stats.total_lines > 0
    /\ insights.recommendations = << "No critical issues detected - system appears healthy" >>

\* The place of a recommendation in the order a, b, c, d, e.
RankOf(rec) ==
    CASE rec = RecErrors    -> 1
      [] rec = RecWarnings  -> 2
      [] rec = RecErrorRate -> 3
      [] rec = RecStatus    -> 4
      [] IsBotAdvisory(rec) -> 5
      [] OTHER              -> 0

\* How often the recommendations hold one of rank r.
Ranked(r) ==
    Cardinality({k \in 1..Len(insights.recommendations) :
                    RankOf(insights.recommendations[k]) = r})

OneIf(condition) == IF condition THEN 1 ELSE 0

\* C10: after a run each of the five recommendations is in the list once
\* when its own condition holds and not at all otherwise (a: errors > 0,
\* b: warnings > 0, c: errors / total_lines > 0.05, d: a status code starts
\* with 4 or 5, e: the top IP has more than 10% of the total lines), and
\* those present stand in the order a, b, c, d, e.
C10_IndependentConditions ==
    pc = "done" =>
        /\ Ranked(1) = OneIf(stats.errors > 0)
        /\ Ranked(2) = OneIf(stats.warnings > 0)
        /\ Ranked(3) = OneIf(100 * stats.errors > 5 * Max(stats.total_lines, 1))
        /\ Ranked(4) = OneIf(BadStatusSeen)
        /\ Ranked(5) = OneIf(IpAboveTenPercent)
        /\ \A i, j \in 1..Len(insights.recommendations) :
              i < j => RankOf(insights.recommendations[i]) < RankOf(insights.recommendations[j])
        /\ Ranked(0) > 0 => Len(insights.recommendations) = 1

\* A run at the end of which exactly the conditions a, b and d hold, the
\* error rate being exactly 5%.
C10_Witness ==
    /\ pc = "done"
    /\ stats.errors = 1
    /\ stats.total_lines = 20
    /\ stats.warnings > 0
    /\ BadStatusSeen
    /\ ~IpAboveTenPercent
    /\ insights.recommendations = << RecErrors, RecWarnings, RecStatus >>

\* C11: when the command line forces a format (--format other than auto),
\* every line the loop processes is parsed and counted as that format.
C11_ForcedFormat ==
    (Processed /\ args.format # "auto") => cur.detected_format = args.format

\* The run of `--format syslog` on the one line "all good" has ended
\* successfully with the line counted under unknown and nothing under syslog.
C11_FailingRun ==
    /\ pc = "exit"
    /\ exit_status = << 0 >>
    /\ args.format = "syslog"
    /\ stream = << PlainLine >>
    /\ Count(insights.format_analysis, "unknown") = 1
    /\ Count(insights.format_analysis, "syslog") = 0

\* analyze_log_file has been left after it opened its input.
LeftAfterOpen == pc \notin {"main", "loop"} /\ file_handle # NoHandle

C13_NoLineAborts ==
    (pc = "exit" /\ raised \notin {"OSError", "KeyboardInterrupt"})
        => /\ exit_status = << 0 >>
           /\ stdout # <<>>
           /\ insights.summary.total_lines_processed = Cardinality(NonEmptyLines)

\* The run on an unmatchable line and a JSON line holding an integer of 4301
\* digits has ended with status 1, a diagnostic and no report.
C13_FailingRun ==
    /\ pc = "exit"
    /\ stream = << NoiseLine, BigIntLine >>
    /\ raised = "ValueError"
    /\ exit_status = << 1 >>
    /\ stdout = <<>>
    /\ stderr = << "Error during analysis: ValueError" >>
    /\ insights = NoInsights

\* C14: a run that ended after the input could not be opened, after reading
\* failed or after the user interrupted it has printed nothing to standard
\* output, has printed a diagnostic to standard error as its last message
\* and has exit status 1.
C14_NoReportOnFailure ==
    (pc = "exit" /\ raised \in {"OSError", "KeyboardInterrupt"})
        => /\ stdout = <<>>
           /\ exit_status = << 1 >>
           /\ stderr # <<>>
           /\ stderr[Len(stderr)] = diagnostic(raised)

\* A run with --output text was interrupted between the print statements of
\* the report: the summary is on standard output, the exit status is 1.
C14_FailingRun ==
    /\ pc = "exit"
    /\ args.output = "text"
    /\ raised = "KeyboardInterrupt"
    /\ insights # NoInsights
    /\ stdout = << "summary" >>
    /\ stderr = << "\nAnalysis interrupted by user" >>
    /\ exit_status = << 1 >>

\* The least member of a non-empty set of positions.
Least(S) == CHOOSE p \in S : \A q \in S : p <= q

\* The text of s from position `from` up to the next character of `stops`
\* (or to the end of s).
TextUpTo(s, from, stops) ==
    SubSeq(s, from, Least({p \in from..Len(s) : Char(s, p) \in stops} \cup {Len(s) + 1}) - 1)

\* The positions at which a run of non-space characters of s begins.
WordStarts(s) ==
    {p \in 1..Len(s) : Char(s, p) \notin SpaceChars /\ (p = 1 \/ Char(s, p - 1) \in SpaceChars)}

\* The start of the third such run, if there is one.
ThirdWordStart(s) == {p \in WordStarts(s) : Cardinality({q \in WordStarts(s) : q < p}) = 2}

\* What an nginx/apache timestamp holds between its first ':' and the next
\* one (or its end): << the text >>, or << >> without any ':'.
WebHourToken(ts) ==
    IF \A p \in 1..Len(ts) : Char(ts, p) # ":" THEN << >>
    ELSE << TextUpTo(ts, Len(TextUpTo(ts, 1, {":"})) + 2, {":"}) >>

\* What the third word of a syslog timestamp holds before its first ':'.
SyslogHourToken(ts) ==
    IF ThirdWordStart(ts) = {} THEN << >>
    ELSE << TextUpTo(ts, Least(ThirdWordStart(ts)), SpaceChars \cup {":"}) >>

\* The hour token of a timestamp under a format.
HourToken(format, ts) ==
    IF format \in {"nginx", "apache"} THEN WebHourToken(ts)
    ELSE IF format = "syslog" THEN SyslogHourToken(ts)
    ELSE << >>

\* The hour token of a line, given what its iteration computed.
HourTokenOf(it) ==
    IF ~it.skipped /\ HasKey(it.parsed_data, "timestamp")
    THEN HourToken(it.detected_format, Get(it.parsed_data, "timestamp").v)
    ELSE << >>

\* HourTokenOf, worked out once for each line of the inputs
HourTokens == [raw \in InputLines |-> HourTokenOf(Iterations[raw])]

\* The hour token of the i-th line of the stream.
HourTokenAt(i) == HourTokens[stream[i]]

TwoDigitHours ==
    {a \o b : a \in {"0", "1"}, b \in DigitChars} \cup {"2" \o b : b \in {"0", "1", "2", "3"}}

\* C15 (as stated): every key of the hourly_activity histogram is a
\* two-digit hour of the day, "00" to "23".
C15_TwoDigitHourKeys ==
    \A i \in 1..Len(stats.hourly_activity) : stats.hourly_activity[i].k \in TwoDigitHours

\* C15 (amended): the keys of the hourly_activity histogram are the hour
\* tokens of the syslog, nginx and apache lines read so far, each counted as
\* often as lines have it: for nginx and apache the text between the first
\* and the second ':' of the timestamp, for syslog the text before the
\* first ':' of the timestamp's third word; a line without such a token adds
\* nothing.
C15_HourKeysAreTokens ==
    /\ \A i \in 1..Len(stats.hourly_activity) :
          stats.hourly_activity[i].v =
              Cardinality({n \in 1..Len(stream) : HourTokenAt(n) = << stats.hourly_activity[i].k >>})
    /\ \A n \in 1..Len(stream) :
          HourTokenAt(n) # << >> => Count(stats.hourly_activity, HourTokenAt(n)[1]) > 0

\* A syslog line of hour "9", an nginx line of hour "08" and an apache line
\* whose timestamp has no ':' have been read.
C15_Witness ==
    /\ stream = << SyslogQuietLine, NginxLine, ApacheLine >>
    /\ stats.hourly_activity = << Entry("9", 1), Entry("08", 1) >>
    /\ stats.total_lines = 3

\* How many of the patterns are found in the text.
MatchCount(patterns, text) == Cardinality({i \in 1..Len(patterns) : Search(patterns[i], text)})

\* C16: a step that reads one line and processes it adds 1 to the error
\* count when the message text matches at least one error pattern (however
\* many) and 0 otherwise, and independently of that adds 1 to the warning
\* count when the text matches at least one warning pattern and 0 otherwise;
\* a step that skips the line, or whose parsing raises, changes neither
\* count. After every step errors <= total_lines and warnings <= total_lines.
C16_CountedOnceIndependently ==
    [][ /\ stats'.errors <= stats'.total_lines
        /\ stats'.warnings <= stats'.total_lines
        /\ line_num' = line_num + 1 =>
            /\ stats'.errors - stats.errors =
                  OneIf(~cur'.skipped /\ cur'.raised = ""
                        /\ MatchCount(error_patterns, cur'.message_text) > 0)
            /\ stats'.warnings - stats.warnings =
                  OneIf(~cur'.skipped /\ cur'.raised = ""
                        /\ MatchCount(warning_patterns, cur'.message_text) > 0) ]_vars

\* A line matching three error patterns and then a line matching an error
\* and a warning pattern have been processed: two errors, one warning.
C16_Witness ==
    /\ Processed
    /\ stream = << ErrorLine, SyslogLine >>
    /\ MatchCount(error_patterns, LocalsAt(1).message_text) = 3
    /\ MatchCount(error_patterns, cur.message_text) > 0
    /\ MatchCount(warning_patterns, cur.message_text) > 0
    /\ stats.errors = 2
    /\ stats.warnings = 1

\* The k-th smallest member of a set of positions.
KthOf(S, k) == CHOOSE p \in S : Cardinality({q \in S : q < p}) = k - 1

\* The sample is the one of the line at position i of the stream.
IsSampleOf(sample, i) ==
    /\ sample.line_number = i
    /\ Len(sample.content) = Min(200, Len(LocalsAt(i).message_text))
    /\ sample.content = SubSeq(LocalsAt(i).message_text, 1, Len(sample.content))
    /\ sample.format = LocalsAt(i).detected_format

\* The samples are those of the first min(10, number of) positions of S.
AreFirstSamples(samples, S) ==
    /\ Len(samples) = Min(10, Cardinality(S))
    /\ \A k \in 1..Len(samples) : IsSampleOf(samples[k], KthOf(S, k))

\* C17: in every state the error samples are the samples of the first
\* min(10, matches) lines counted as errors, in stream order, and likewise
\* the warning samples; a sample's line_number is the position of its line
\* in the stream (empty lines counted), its content the first 200 characters
\* of the message text, its format the detected format.
C17_FirstSamplesInOrder ==
    /\ AreFirstSamples(stats.error_samples, ErrorLines)
    /\ AreFirstSamples(stats.warning_samples, WarningLines)

\* After an empty line, an error line of more than 200 characters and ten
\* lines matching error and warning patterns, one more such line was read:
\* the first error sample is the long line, cut, with number 2, the tenth is
\* line 11, and line 13 is in no list.
C17_Witness ==
    /\ Len(stream) = 13
    /\ stream[1] = EmptyLine
    /\ stats.errors = 12
    /\ Len(stats.error_samples) = 10
    /\ stats.error_samples[1].line_number = 2
    /\ Len(stats.error_samples[1].content) = 200
    /\ Len(LocalsAt(2).message_text) > 200
    /\ stats.error_samples[10].line_number = 11
    /\ stats.warnings = 11
    /\ stats.warning_samples[10].line_number = 12

\* The keys of a dictionary, in order.
KeysOf(d) == [i \in 1..Len(d) |-> d[i].k]

\* The field names of the records of a format.
FieldNames(format) ==
    IF format = "syslog" THEN << "timestamp", "host", "service", "message" >>
    ELSE << "ip", "timestamp", "method", "path", "status", "size", "referrer", "user_agent" >>

\* An iteration has just processed a line detected as syslog, nginx or apache.
ProcessedPatternLine == Processed /\ cur.detected_format \in {"syslog", "nginx", "apache"}

\* C18 (as stated): the record of a syslog, nginx or apache line maps every
\* field it contains to a string, and the record of an apache line without
\* the trailing quoted fields has neither the key referrer nor the key
\* user_agent.
C18_TailKeysAbsent ==
    ProcessedPatternLine =>
        /\ \A i \in 1..Len(cur.parsed_data) : cur.parsed_data[i].v.t = "str"
        /\ (cur.detected_format = "apache" /\ Char(cur.line, Len(cur.line)) # "\"")
              => /\ ~HasKey(cur.parsed_data, "referrer")
                 /\ ~HasKey(cur.parsed_data, "user_agent")

\* C18 (amended): the record of a syslog, nginx or apache line has exactly
\* the named fields of its format's pattern; every field is mapped to a
\* string, except that the record of an apache line, which has no trailing
\* quoted fields, maps referrer and user_agent to None.
C18_TailKeysNone ==
    ProcessedPatternLine =>
        /\ KeysOf(cur.parsed_data) = FieldNames(cur.detected_format)
        /\ \A i \in 1..Len(cur.parsed_data) :
              IF cur.detected_format = "apache"
                 /\ cur.parsed_data[i].k \in {"referrer", "user_agent"}
              THEN cur.parsed_data[i].v = NoneVal
              ELSE cur.parsed_data[i].v.t = "str"
        /\ cur.detected_format = "apache" => Char(cur.line, Len(cur.line)) # "\""

\* The apache line without referrer and user agent has been processed: its
\* record holds both keys with the value None, and the status as a string.
C18_Witness ==
    /\ Processed
    /\ stream[Len(stream)] = ApacheLine
    /\ cur.detected_format = "apache"
    /\ Get(cur.parsed_data, "referrer") = NoneVal
    /\ Get(cur.parsed_data, "user_agent") = NoneVal
    /\ Get(cur.parsed_data, "status") = StrVal("404")

\* The keyword table of _get_common_patterns as the specification gives it.
LabelTable ==
    << [words |-> {"timeout"},         label |-> "Timeout issues"],
       [words |-> {"connection"},      label |-> "Connection problems"],
       [words |-> {"memory", "ram"},   label |-> "Memory pressure"],
       [words |-> {"disk", "storage"}, label |-> "Storage issues"],
       [words |-> {"cpu"},             label |-> "High CPU usage"] >>

\* The rows of the table with a keyword that occurs in the lowercased content.
RowsIn(content) ==
    {r \in 1..Len(LabelTable) : \E w \in LabelTable[r].words : Contains(Lower(content), w)}

\* The contents the samples of the inputs' lines have.
Contents == {Prefix(Iterations[raw].message_text, 200) : raw \in InputLines}

\* RowsIn, worked out once for each of them
RowsOfContent == [content \in Contents |-> RowsIn(content)]

\* RowsIn of the content of a sample
RowsOf(sample) ==
    IF sample.content \in Contents THEN RowsOfContent[sample.content]
    ELSE RowsIn(sample.content)

\* The samples a label may come from.
FirstFive(samples) == SubSeq(samples, 1, Min(5, Len(samples)))

\* The labels of all keywords that occur in the first five samples.
AllLabels(samples) ==
    {LabelTable[r].label :
        r \in UNION {RowsOf(FirstFive(samples)[i]) : i \in 1..Len(FirstFive(samples))}}

\* For each of the first five samples with a keyword, the label of the
\* first row of the table that has one.
FirstLabels(samples) ==
    {LabelTable[Least(RowsOf(FirstFive(samples)[i]))].label :
        i \in {j \in 1..Len(FirstFive(samples)) : RowsOf(FirstFive(samples)[j]) # {}}}

NoDuplicates(list) == \A i, j \in 1..Len(list) : list[i] = list[j] => i = j

\* The list holds min(3, number of) labels of the set, each once.
IsCutOf(list, labels) ==
    /\ NoDuplicates(list)
    /\ Len(list) = Min(3, Cardinality(labels))
    /\ \A i \in 1..Len(list) : list[i] \in labels

\* The list holds labels of the set, at most 3, each once, and all of them
\* when the set has no more than 3.
HoldsEveryLabel(list, labels) ==
    /\ NoDuplicates(list)
    /\ Len(list) <= 3
    /\ \A i \in 1..Len(list) : list[i] \in labels
    /\ Cardinality(labels) <= 3 => \A l \in labels : \E i \in 1..Len(list) : list[i] = l

\* C19 (as stated): most_common_errors and most_common_warnings hold no
\* duplicates, at most 3 labels, only labels of keywords found in the first
\* five samples, and the label of every keyword found there as long as the
\* cap of 3 is not exceeded.
C19_EveryKeywordLabelled ==
    insights # NoInsights =>
        /\ HoldsEveryLabel(insights.error_analysis.most_common_errors,
                           AllLabels(insights.error_analysis.samples))
        /\ HoldsEveryLabel(insights.warning_analysis.most_common_warnings,
                           AllLabels(insights.warning_analysis.samples))

\* C19 (amended): each of the first five samples contributes one label, that
\* of the first table row (timeout, connection, memory|ram, disk|storage,
\* cpu) with a keyword in its lowercased content; most_common_errors and
\* most_common_warnings hold min(3, number of) of the labels so
\* contributed, each once; later samples contribute nothing.
C19_FirstKeywordLabelled ==
    insights # NoInsights =>
        /\ IsCutOf(insights.error_analysis.most_common_errors,
                   FirstLabels(insights.error_analysis.samples))
        /\ IsCutOf(insights.warning_analysis.most_common_warnings,
                   FirstLabels(insights.warning_analysis.samples))

\* A run over a line with the keywords disk and timeout, four lines with
\* timeout and, as sixth error, a line with memory: the only label is the
\* one of timeout.
C19_Witness ==
    /\ pc = "done"
    /\ Len(insights.error_analysis.samples) = 6
    /\ RowsIn(insights.error_analysis.samples[1].content) = {1, 4}
    /\ RowsIn(insights.error_analysis.samples[6].content) = {3}
    /\ insights.error_analysis.most_common_errors = << "Timeout issues" >>

\* How many progress notices standard error holds.
NoticeCount ==
    Cardinality({i \in 1..Len(stderr) : SubSeq(stderr[i], 1, 10) = "Processed "})

\* C20: in every state one progress notice has been printed to standard
\* error for each multiple of 10,000 that the number of processed lines has
\* reached.
C20_NoticePerTenThousand == NoticeCount = stats.total_lines \div 10000

\* A run over 9,999 lines, an empty line and one more line has processed
\* 10,000 lines and printed no notice.
C20_FailingRun ==
    /\ pc = "done"
    /\ Len(stream) = 10001
    /\ stream[10000] = EmptyLine
    /\ stats.total_lines = 10000
    /\ stderr = <<>>

\* The sum of the counts of a counter.
RECURSIVE CountSum(_)
CountSum(c) == IF c = <<>> THEN 0 ELSE Head(c).v + CountSum(Tail(c))

\* The counter `after` is `before` with one more under the record's value of
\* the field.
CountsField(before, after, record, field) ==
    /\ HasKey(record, field)
    /\ Count(after, Get(record, field).v) = Count(before, Get(record, field).v) + 1
    /\ CountSum(after) = CountSum(before) + 1

\* C21: a step that processes a line from whose record no hour can be
\* extracted leaves the hourly histogram as it was, adds one to total_lines
\* and to the count of the line's format and, for an nginx or apache line,
\* one to the counts of its status, its path and its IP; after every step
\* the hour buckets sum to no more than total_lines.
C21_FailedHourLeavesHistogram ==
    [][ /\ CountSum(stats'.hourly_activity) <= stats'.total_lines
        /\ (line_num' = line_num + 1 /\ ~cur'.skipped /\ cur'.raised = ""
            /\ HourTokenOf(cur') = << >>)
           => /\ stats'.hourly_activity = stats.hourly_activity
              /\ stats'.total_lines = stats.total_lines + 1
              /\ Count(stats'.format_distribution, cur'.detected_format)
                    = Count(stats.format_distribution, cur'.detected_format) + 1
              /\ cur'.detected_format \in {"nginx", "apache"}
                    => /\ CountsField(stats.status_codes, stats'.status_codes,
                                      cur'.parsed_data, "status")
                       /\ CountsField(stats.top_paths, stats'.top_paths,
                                      cur'.parsed_data, "path")
                       /\ CountsField(stats.top_ips, stats'.top_ips,
                                      cur'.parsed_data, "ip") ]_vars

\* After an nginx line of hour "08", the apache line whose timestamp holds
\* no ':' has been processed: the histogram still has the one bucket, the
\* line is counted in the total, under apache and under its status and IP.
C21_Witness ==
    /\ Processed
    /\ stream = << NginxLine, ApacheLine >>
    /\ HasKey(cur.parsed_data, "timestamp")
    /\ HourTokenOf(cur) = << >>
    /\ stats.hourly_activity = << Entry("08", 1) >>
    /\ stats.total_lines = 2
    /\ Count(stats.format_distribution, "apache") = 1
    /\ Count(stats.status_codes, "404") = 1
    /\ Count(stats.top_ips, "10.0.0.7") = 1

\* The positions of the stream whose line was detected as nginx or apache.
WebLines == {i \in NonEmptyLines : LocalsAt(i).detected_format \in {"nginx", "apache"}}

\* C24: in every state the format counts sum to total_lines and have no key
\* other than json, syslog, nginx, apache and unknown, and the status-code
\* counts, the path counts and the IP counts each sum to the number of lines
\* read so far that were detected as nginx or apache.
C24_CountersAddUp ==
    /\ CountSum(stats.format_distribution) = stats.total_lines
    /\ \A i \in 1..Len(stats.format_distribution) :
          stats.format_distribution[i].k \in {"json", "syslog", "nginx", "apache", "unknown"}
    /\ CountSum(stats.status_codes) = Cardinality(WebLines)
    /\ CountSum(stats.top_paths) = Cardinality(WebLines)
    /\ CountSum(stats.top_ips) = Cardinality(WebLines)

\* An nginx, an apache and a syslog line have been read: three lines under
\* three formats, two status codes, two paths and two IPs counted.
C24_Witness ==
    /\ stream = << NginxLine, ApacheLine, SyslogLine >>
    /\ stats.total_lines = 3
    /\ Len(stats.format_distribution) = 3
    /\ Len(stats.status_codes) = 2
    /\ CountSum(stats.top_paths) = 2
    /\ CountSum(stats.top_ips) = 2

\* C25: the record of a processed line that was detected as syslog, nginx
\* or apache is never a fallback record: it has no key raw and no key
\* format, and it has the fields timestamp and, by its format, message or
\* status.
C25_NoParseErrorFallback ==
    ProcessedPatternLine =>
        /\ ~HasKey(cur.parsed_data, "raw")
        /\ ~HasKey(cur.parsed_data, "format")
        /\ HasKey(cur.parsed_data, "timestamp")
        /\ HasKey(cur.parsed_data, IF cur.detected_format = "syslog" THEN "message" ELSE "status")
        /\ \A i \in 1..Len(stats.error_samples) :
              stats.error_samples[i].format \in {"json", "syslog", "nginx", "apache", "unknown"}

\* After a line of unknown format, the syslog line has been parsed into its
\* fields.
C25_Witness ==
    /\ Processed
    /\ stream = << PaddedLine, SyslogLine >>
    /\ cur.detected_format = "syslog"
    /\ Get(cur.parsed_data, "service") = StrVal("app")
    /\ Get(cur.parsed_data, "message") = StrVal("connection failed, slow upstream")
    /\ ~HasKey(cur.parsed_data, "raw")

\* The record is the fallback of a JSON-shaped line that failed to decode.
IsDecodeFallback(record) ==
    /\ KeysOf(record) = << "raw", "format" >>
    /\ Get(record, "format") = StrVal("json_parse_error")

\* C26: a step that processes a JSON-shaped line which fails to decode adds
\* to the error count only if the text of the line itself matches an error
\* pattern.
C26_FallbackIsNoError ==
    [][ (/\ line_num' = line_num + 1
         /\ ~cur'.skipped
         /\ cur'.detected_format = "json"
         /\ IsDecodeFallback(cur'.parsed_data)
         /\ stats'.errors = stats.errors + 1)
        => MatchCount(error_patterns, cur'.line) > 0 ]_vars

\* The JSON-shaped line {1.1.1.1 - - [t] "GET / H" 200 5}, which matches no
\* error pattern, has been processed and is counted and sampled as an error.
C26_FailingRun ==
    /\ Processed
    /\ stream = << JsonApacheLine >>
    /\ IsDecodeFallback(cur.parsed_data)
    /\ MatchCount(error_patterns, cur.line) = 0
    /\ stats.errors = 1
    /\ Len(stats.error_samples) = 1
    /\ Contains(stats.error_samples[1].content, "json_parse_error")


\* The queries whose search call has returned.
Searched ==
    Len(brave.argv) - Len(brave.queries) - (IF brave.pc = "request" THEN 1 ELSE 0)

\* The tiers of the keys that are configured, in the order paid, free.
Configured ==
    (IF brave.paid # "" THEN <<"paid">> ELSE <<>>)
    \o (IF brave.free # "" THEN <<"free">> ELSE <<>>)

\* The calls of _search_with_key of the latest search that returned data.
WithData == {i \in 1..Len(brave.returns) : brave.returns[i].data # <<>>}

\* The line the latest search call printed.
LastPrinted == brave.printed[Len(brave.printed)]

\* C22: brave_search prints exactly one JSON object per query, in the order
\* of the queries.  Within one search the requests go to the paid key first
\* and to the free key only after the call with the paid key returned no
\* data.  The first call that returns data ends the search: its result is
\* printed with tier naming its key and no request follows.  When every
\* configured key returned no data, or no key is configured, the one object
\* printed has success = FALSE and downgrade = TRUE.
C22_OneResultPerQuery ==
    /\ Len(brave.printed) = Searched
    /\ \A i \in 1..Len(brave.printed) :
          "query" \in DOMAIN brave.printed[i] => brave.printed[i].query = brave.argv[i]
    /\ \A i \in 1..Len(brave.returns) : brave.returns[i].tier = Configured[i]
    /\ \A i \in 1..Len(brave.requests) : \A j \in i..Len(brave.requests) :
          brave.requests[i] = "free" => brave.requests[j] = "free"
    /\ \A i \in 1..Len(brave.requests) :
          (brave.requests[i] = "free" /\ brave.paid # "")
             => /\ brave.returns # <<>>
                /\ brave.returns[1].tier = "paid"
                /\ brave.returns[1].data = <<>>
                /\ brave.requests[1] = "paid"
    /\ brave.pc = "request" => WithData = {}
    /\ (brave.pc \in {"main", "exit"} /\ brave.printed # <<>>) =>
          IF WithData # {}
          THEN /\ WithData = {Len(brave.returns)}
               /\ LastPrinted.success = TRUE
               /\ LastPrinted.tier = brave.returns[Len(brave.returns)].tier
               /\ brave.requests[Len(brave.requests)] = LastPrinted.tier
               /\ LastPrinted.results = brave.returns[Len(brave.returns)].data[1].results
          ELSE /\ LastPrinted.success = FALSE
               /\ LastPrinted.downgrade = TRUE
               /\ Len(brave.returns) = Len(Configured)
               /\ Configured = <<>> => brave.requests = <<>>
               /\ Configured # <<>> =>
                     LastPrinted.last_error = brave.returns[Len(brave.returns)].err

\* The first query failed with both keys; the second was answered with the
\* free key after the paid key was refused.
C22_Witness ==
    /\ brave.pc = "main"
    /\ brave.argv = <<"tla", "tlc">>
    /\ Len(brave.printed) = 2
    /\ brave.printed[1].success = FALSE
    /\ brave.printed[1].downgrade = TRUE
    /\ brave.printed[2].success = TRUE
    /\ brave.printed[2].tier = "free"
    /\ brave.printed[2].query = "tlc"
    /\ brave.requests = <<"paid", "free">>
    /\ brave.returns[1].err = <<[kind |-> "auth", status |-> 401]>>


\* How many requests of the latest search were sent with the key of tier.
RequestsWith(s, tier) ==
    Cardinality({i \in 1..Len(s.requests) : s.requests[i] = tier})

\* The step from s to t sends one request.
Requested(s, t) ==
    s.pc = "request" /\ Len(t.requests) = Len(s.requests) + 1

\* In the step from s to t the call of _search_with_key returns (data, err).
Returns(s, t, data, err) ==
    t.returns = Append(s.returns, [tier |-> s.tier, data |-> data, err |-> err])

\* The step from s to t consumes a retry: the call goes on with the same key
\* and retry_count one higher, or it was the last pass allowed and the call
\* returns no data and the error rate_or_api.
Retried(s, t) ==
    IF s.retry_count < MAX_RETRIES
    THEN /\ t.pc = "request"
         /\ t.retry_count = s.retry_count + 1
         /\ t.tier = s.tier
         /\ t.returns = s.returns
         /\ t.printed = s.printed
    ELSE Returns(s, t, <<>>, <<[kind |-> "rate_or_api", status |-> 429]>>)

\* A step that returns does not go on with the same call.
NotRetried(s, t) ==
    /\ Len(t.returns) = Len(s.returns) + 1
    /\ t.pc = "request" => (t.retry_count = 0 /\ t.tier # s.tier)

\* What one pass of the loop does with resp when the answers in success
\* return data at once and those in failed consume a retry.
PassOutcome(s, t, success, failed) ==
    /\ t.resp \in success =>
          /\ Returns(s, t, <<[success |-> TRUE, query |-> s.query,
                               results |-> results_of(t.resp.body)]>>, <<>>)
          /\ NotRetried(s, t)
    /\ t.resp \in failed => Retried(s, t)
    /\ t.resp.status_code \in {401, 403} =>
          /\ Returns(s, t, <<>>, <<[kind |-> "auth", status |-> t.resp.status_code]>>)
          /\ NotRetried(s, t)
    /\ t.resp \notin success \cup failed /\ t.resp.status_code \notin {401, 403} =>
          /\ Returns(s, t, <<>>, <<[kind |-> "api", status |-> t.resp.status_code]>>)
          /\ NotRetried(s, t)

Answers200 == {r \in Responses : r.status_code = 200}

AnswersRetried == {r \in Responses : r.status_code = 429 \/ r.status_code >= 500}

\* C23 as stated: one call of _search_with_key sends MAX_RETRIES + 1 = 4
\* requests at most; every 200 answer returns success at once, a 401 or 403
\* answer returns an auth error at once, any other answer that is neither
\* 429 nor 5xx returns an api error at once, and only 429, 5xx and a request
\* that raises consume a retry; after the last retry the call returns an
\* error and no data.
C23_Every200ReturnsAtOnce ==
    [][ /\ RequestsWith(brave', "paid") <= MAX_RETRIES + 1
        /\ RequestsWith(brave', "free") <= MAX_RETRIES + 1
        /\ Requested(brave, brave') =>
              PassOutcome(brave, brave', Answers200, AnswersRetried \cup {Raised})
      ]_vars

\* C23, amended: as above, but a 200 answer returns success at once only if
\* its body is a JSON object; a 200 answer whose body resp.json() or the
\* reading of the results fails on consumes a retry like a request that
\* raises.
C23_BoundedRequests ==
    [][ /\ RequestsWith(brave', "paid") <= MAX_RETRIES + 1
        /\ RequestsWith(brave', "free") <= MAX_RETRIES + 1
        /\ Requested(brave, brave') =>
              PassOutcome(brave, brave',
                          Answers200 \ {Response(200, "invalid")},
                          AnswersRetried \cup {Raised, Response(200, "invalid")})
      ]_vars

\* Four requests with the paid key, the last answered 200 with a body that is
\* not JSON: the call returned the error without data and the search failed.
C23_Witness ==
    /\ brave.pc = "main"
    /\ brave.free = ""
    /\ brave.requests = <<"paid", "paid", "paid", "paid">>
    /\ brave.resp = Response(200, "invalid")
    /\ brave.returns = <<[tier |-> "paid", data |-> <<>>,
                          err |-> <<[kind |-> "rate_or_api", status |-> 429]>>]>>
    /\ Len(brave.printed) = 1
    /\ brave.printed[1].success = FALSE

=============================================================================
